---- MODULE Spec2Model ----
(***************************************************************************)
(* A model of the graph engine of mini-caffe (caffe::Net): rule            *)
(* evaluation, description filtering, graph construction (Net::Init with   *)
(* AppendBottom / AppendTop / AppendParam) and the operations on a built   *)
(* graph.                                                                  *)
(*                                                                         *)
(* Conventions.  C++ vectors are sequences; every index STORED in the      *)
(* model (buffer ids, layer ids, parameter ids, owners) is the 0-based     *)
(* value the program stores, and At(s, i) reads element i of a vector.     *)
(* A std::map is a function whose DOMAIN is the key set, a std::set<string>*)
(* is a set that is iterated in ascending string order.  LOG(FATAL) and a  *)
(* failed CHECK end the process: the operation returns with `fatal` set    *)
(* and the state machine moves to pc = "fatal" and stops.                  *)
(***************************************************************************)
EXTENDS Integers, Sequences, FiniteSets, TLC

(***************************************************************************)
(* Bounds of the model.                                                    *)
(***************************************************************************)
\* largest level of a NetState / NetStateRule
MaxLevel == 2
\* longest stage / not_stage list of a rule or a state
MaxStages == 2
\* longest include / exclude list of a unit of a filtered description
MaxRules == 2
\* most units of a description that carries include / exclude rules
MaxFilterLayers == 2
\* most units of a description whose buffers are wired (bottoms and tops)
MaxLayers == 3
\* most bottoms, and most tops, of one unit
MaxBlobs == 2
\* most parameter blobs, and most parameter specs, of one unit
MaxParams == 1
\* largest extent of a dimension of a parameter blob
MaxDim == 2
\* largest learning-rate / weight-decay multiplier of a parameter spec
MaxMult == 2
\* largest scalar objective contribution that a unit's forward reports
MaxLoss == 1
\* most units of a graph that receives trained parameters, and of their source
MaxCopyLayers == 2
\* most parameter blobs of one such unit
MaxCopyBlobs == 2
\* the units of a description with propagation overrides
MaxPropLayers == 2
\* the units of a description that is checked for its numbers of specs
MaxCountLayers == 2
\* the parameter specs and the parameter blobs of such a unit
MaxCountParams == 2
\* the boxes handed to ApplyNMSFastEx
MaxBoxes == 3
\* scores are 0..MaxScore
MaxScore == 2
\* overlaps are 0..MaxOverlap
MaxOverlap == 2

(***************************************************************************)
(* Generic helpers.                                                        *)
(***************************************************************************)
At(s, i) == s[i + 1]

Range(s) == {s[i] : i \in 1..Len(s)}

SeqsUpTo(S, n) == UNION {[1..k -> S] : k \in 0..n}

\* std::map::operator[] : the value (a missing key is inserted with value 0)
MapAt(m, k) == IF k \in DOMAIN m THEN m[k] ELSE 0

\* std::map after operator[] was applied to key k
MapTouch(m, k) == IF k \in DOMAIN m THEN m ELSE [x \in DOMAIN m \cup {k} |-> IF x = k THEN 0 ELSE m[x]]

\* std::map after m[k] = v
MapPut(m, k, v) == [x \in DOMAIN m \cup {k} |-> IF x = k THEN v ELSE m[x]]

EmptyMap == [x \in {} |-> 0]

(***************************************************************************)
(* Rule Evaluator: StateMeetsRule.                                         *)
(***************************************************************************)
Phases == {"TRAIN", "TEST"}

Stages == {"s1", "s2"}

Levels == 0..MaxLevel

NetStates == [phase : Phases, level : Levels, stage : SeqsUpTo(Stages, MaxStages)]

NetStateRules == {r \in [has_phase : BOOLEAN, phase : Phases, has_min_level : BOOLEAN, min_level : Levels, has_max_level : BOOLEAN, max_level : Levels, stage : SeqsUpTo(Stages, MaxStages), not_stage : SeqsUpTo(Stages, MaxStages)] : /\ (~r.has_phase => r.phase = "TRAIN") /\ (~r.has_min_level => r.min_level = 0) /\ (~r.has_max_level => r.max_level = 0)}

\* the inner loop  for (j = 0; !has_stage && j < state.stage_size(); ++j)
RECURSIVE HasStageFrom(_, _, _)
HasStageFrom(state, name, j) ==
  IF j >= Len(state.stage) THEN FALSE
  ELSE IF name = At(state.stage, j) THEN TRUE
  ELSE HasStageFrom(state, name, j + 1)

\* the loop over rule.stage(i): the first i whose stage the state lacks, or -1
RECURSIVE FirstMissingStage(_, _, _)
FirstMissingStage(state, rule, i) ==
  IF i >= Len(rule.stage) THEN -1
  ELSE IF ~HasStageFrom(state, At(rule.stage, i), 0) THEN i
  ELSE FirstMissingStage(state, rule, i + 1)

\* the loop over rule.not_stage(i): the first i whose stage the state has, or -1
RECURSIVE FirstForbiddenStage(_, _, _)
FirstForbiddenStage(state, rule, i) ==
  IF i >= Len(rule.not_stage) THEN -1
  ELSE IF HasStageFrom(state, At(rule.not_stage, i), 0) THEN i
  ELSE FirstForbiddenStage(state, rule, i + 1)

\* a mutant: the max_level test is made before the min_level test
StateMeetsRule_swapped(state, rule) ==
  IF rule.has_phase /\ rule.phase # state.phase THEN [met |-> FALSE, log |-> "phase"]
  ELSE IF rule.has_max_level /\ state.level > rule.max_level THEN [met |-> FALSE, log |-> "max_level"]
  ELSE IF rule.has_min_level /\ state.level < rule.min_level THEN [met |-> FALSE, log |-> "min_level"]
  ELSE IF FirstMissingStage(state, rule, 0) # -1 THEN [met |-> FALSE, log |-> "stage"]
  ELSE IF FirstForbiddenStage(state, rule, 0) # -1 THEN [met |-> FALSE, log |-> "not_stage"]
  ELSE [met |-> TRUE, log |-> ""]

\* the value returned, and the sub-condition named by the LOG(INFO) line that
\* is written just before a `return false`
StateMeetsRule(state, rule) ==
  IF rule.has_phase /\ rule.phase # state.phase THEN [met |-> FALSE, log |-> "phase"]
  ELSE IF rule.has_min_level /\ state.level < rule.min_level THEN [met |-> FALSE, log |-> "min_level"]
  ELSE IF rule.has_max_level /\ state.level > rule.max_level THEN [met |-> FALSE, log |-> "max_level"]
  ELSE IF FirstMissingStage(state, rule, 0) # -1 THEN [met |-> FALSE, log |-> "stage"]
  ELSE IF FirstForbiddenStage(state, rule, 0) # -1 THEN [met |-> FALSE, log |-> "not_stage"]
  ELSE [met |-> TRUE, log |-> ""]

(***************************************************************************)
(* Graph Filter: FilterNet.                                                *)
(***************************************************************************)
\* the loop  for (j = 0; layer_included && j < exclude_size(); ++j)
RECURSIVE ExcludeLoop(_, _, _, _)
ExcludeLoop(net_state, layer_param, j, layer_included) ==
  IF ~(layer_included /\ j < Len(layer_param.exclude)) THEN layer_included
  ELSE ExcludeLoop(net_state, layer_param, j + 1, IF StateMeetsRule(net_state, At(layer_param.exclude, j)).met THEN FALSE ELSE layer_included)

\* the loop  for (j = 0; !layer_included && j < include_size(); ++j)
RECURSIVE IncludeLoop(_, _, _, _)
IncludeLoop(net_state, layer_param, j, layer_included) ==
  IF ~(~layer_included /\ j < Len(layer_param.include)) THEN layer_included
  ELSE IncludeLoop(net_state, layer_param, j + 1, IF StateMeetsRule(net_state, At(layer_param.include, j)).met THEN TRUE ELSE layer_included)

\* a mutant: the CHECK is dropped
FilterCheck_none(layer_param) == TRUE

\* the CHECK of FilterNet on one unit
FilterCheck(layer_param) == Len(layer_param.include) = 0 \/ Len(layer_param.exclude) = 0

\* a mutant: only the first include rule is tried
LayerIncluded_firstInclude(net_state, layer_param) ==
  IF Len(layer_param.include) = 0 THEN ExcludeLoop(net_state, layer_param, 0, TRUE)
  ELSE StateMeetsRule(net_state, At(layer_param.include, 0)).met

\* the body of FilterNet's loop after the CHECK: is the unit kept
LayerIncluded(net_state, layer_param) ==
  IncludeLoop(net_state, layer_param, 0, ExcludeLoop(net_state, layer_param, 0, Len(layer_param.include) = 0))

\* FilterNet from unit i on, param_filtered holding `acc` so far
RECURSIVE FilterFrom(_, _, _)
FilterFrom(param, i, acc) ==
  IF i >= Len(param.layer) THEN [fatal |-> "", layer |-> acc]
  ELSE IF ~FilterCheck(At(param.layer, i)) THEN [fatal |-> "Specify either include rules or exclude rules; not both.", layer |-> acc]
  ELSE FilterFrom(param, i + 1, IF LayerIncluded(param.state, At(param.layer, i)) THEN Append(acc, At(param.layer, i)) ELSE acc)

FilterNet(param) == FilterFrom(param, 0, <<>>)

(***************************************************************************)
(* Descriptions (NetParameter / LayerParameter / ParamSpec).               *)
(***************************************************************************)
\* buffer names, listed in ascending std::string order
NameOrder == <<"a", "b", "c">>

BlobNames == Range(NameOrder)

\* the elements of a std::set<string>, in iteration order
SetInOrder(S) == SelectSeq(NameOrder, LAMBDA n : n \in S)

\* unit names: the unit declared at position i is named UnitName(i)
UnitName(i) == At(<<"u0", "u1", "u2", "u3", "u4", "u5">>, i)

\* "Input" is the distinguished graph-input type; "Op" stands for any other
LayerTypes == {"Input", "Op"}

\* ParamSpec default_param_spec;  (strict sharing, no multiplier given, both
\* multipliers at their default 1.0)
default_param_spec == [name |-> "", share_mode |-> "STRICT", has_lr_mult |-> FALSE, lr_mult |-> 1, has_decay_mult |-> FALSE, decay_mult |-> 1]

\* a unit record without rules, parameters or buffers
PlainLayer(i) == [name |-> UnitName(i), type |-> "Op", bottom |-> <<>>, top |-> <<>>, include |-> <<>>, exclude |-> <<>>, param |-> <<>>, propagate_down |-> <<>>, blob_shapes |-> <<>>]

\* the unit records of a wired description: every type and every list of
\* bottoms and tops up to MaxBlobs names
WiredLayers(i) == {[PlainLayer(i) EXCEPT !.type = t, !.bottom = b, !.top = tp] : t \in LayerTypes, b \in SeqsUpTo(BlobNames, MaxBlobs), tp \in SeqsUpTo(BlobNames, MaxBlobs)}

\* parameter blobs are matrices
Shapes == [1..2 -> 1..MaxDim]

\* the parameter specs that give a name and a share mode but no multiplier
NamedSpecs == {[default_param_spec EXCEPT !.name = n, !.share_mode = m] : n \in {"", "w"}, m \in {"STRICT", "PERMISSIVE"}}

\* the unit records of a description of parameterised units: blob_shapes is
\* the list of parameter blobs the instantiated unit creates when it is set up
ParamLayers(i) == {[PlainLayer(i) EXCEPT !.param = ps, !.blob_shapes = sh] : ps \in SeqsUpTo(NamedSpecs, MaxParams), sh \in SeqsUpTo(Shapes, MaxParams)}

\* the parameter specs named "w" with every choice of the two multipliers (a
\* multiplier that is not given reads as its default 1.0)
MultSpecs == {[default_param_spec EXCEPT !.name = "w", !.has_lr_mult = hl, !.lr_mult = l, !.has_decay_mult = hd, !.decay_mult = d] : hl \in BOOLEAN, l \in 1..MaxMult, hd \in BOOLEAN, d \in 1..MaxMult}

\* the unit records of a description of units with one parameter blob each,
\* all of one shape and all declared under the name "w"
MultLayers(i) == {[PlainLayer(i) EXCEPT !.param = <<ps>>, !.blob_shapes = <<<<1, 1>>>>] : ps \in {m \in MultSpecs : (~m.has_lr_mult => m.lr_mult = 1) /\ (~m.has_decay_mult => m.decay_mult = 1)}}

\* the rules of the descriptions with rules: at most a phase condition
PhaseRules == {r \in NetStateRules : r.stage = <<>> /\ r.not_stage = <<>> /\ ~r.has_min_level /\ ~r.has_max_level}

\* the unit records of a description with rules: no buffers, no parameters
RuleLayers(i) == {[PlainLayer(i) EXCEPT !.include = inc, !.exclude = exc] : inc \in SeqsUpTo(PhaseRules, MaxRules), exc \in SeqsUpTo(PhaseRules, MaxRules)}

RECURSIVE RuleLayerSeqs(_)
RuleLayerSeqs(n) == IF n = 0 THEN {<<>>} ELSE {Append(ls, l) : ls \in RuleLayerSeqs(n - 1), l \in RuleLayers(n - 1)}

\* the descriptions with rules: a runtime state and up to `most` units
RuleNets(most) == UNION {[state : {st \in NetStates : st.stage = <<>> /\ st.level = 0}, layer : RuleLayerSeqs(n)] : n \in 0..most}

(***************************************************************************)
(* The Net object, with the two locals of Net::Init that its helpers       *)
(* update (blob_name_to_idx, available_blobs).  A pointer to the Blob that *)
(* AppendTop allocated as buffer i is the number i; a pointer to the Blob  *)
(* that unit l created as its parameter p is the pair <<l, p>>.  Init      *)
(* never makes two Blob objects share their data, so that a Blob object    *)
(* and its storage are the same thing.                                     *)
(***************************************************************************)
EmptyNet == [
  fatal |-> "",
  layers_ |-> <<>>, layer_names_ |-> <<>>,
  blobs_ |-> <<>>, blob_names_ |-> <<>>, blob_need_backward_ |-> <<>>,
  bottom_vecs_ |-> <<>>, top_vecs_ |-> <<>>,
  bottom_id_vecs_ |-> <<>>, top_id_vecs_ |-> <<>>, param_id_vecs_ |-> <<>>,
  bottom_need_backward_ |-> <<>>, layer_need_backward_ |-> <<>>,
  net_input_blob_indices_ |-> <<>>, net_input_blobs_ |-> <<>>,
  net_output_blob_indices_ |-> <<>>, net_output_blobs_ |-> <<>>,
  params_ |-> <<>>, param_owners_ |-> <<>>, param_display_names_ |-> <<>>,
  param_layer_indices_ |-> <<>>, param_names_index_ |-> EmptyMap,
  learnable_params_ |-> <<>>, learnable_param_ids_ |-> <<>>,
  has_params_lr_ |-> <<>>, has_params_decay_ |-> <<>>,
  params_lr_ |-> <<>>, params_weight_decay_ |-> <<>>,
  blob_names_index_ |-> EmptyMap, layer_names_index_ |-> EmptyMap,
  blob_name_to_idx |-> EmptyMap, available_blobs |-> {}]

\* v[layer_id].push_back(x) on a vector of vectors
PushAt(v, layer_id, x) == [v EXCEPT ![layer_id + 1] = Append(@, x)]

\* Net::Init up to the unit loop: the per-unit vectors are resized to the
\* number of units of the description
ResizeNet(N, layer_size) ==
  LET empties == [i \in 1..layer_size |-> <<>>]
  IN [N EXCEPT !.bottom_vecs_ = empties, !.top_vecs_ = empties, !.bottom_id_vecs_ = empties, !.param_id_vecs_ = empties, !.top_id_vecs_ = empties, !.bottom_need_backward_ = empties]

(***************************************************************************)
(* Graph Builder helpers: AppendTop, AppendBottom, AppendParam.            *)
(***************************************************************************)
\* a mutant: only a name that is still available collides
TopCollides_available(N, blob_name) == blob_name \in N.available_blobs

\* a mutant: a name that is already registered is registered again
TopCollides_never(N, blob_name) == FALSE

\* AppendTop's second test: the name is already in blob_name_to_idx
TopCollides(N, blob_name) == blob_name \in DOMAIN N.blob_name_to_idx

\* a mutant: the in-place test is dropped
TopInPlace_never(layer_param, top_id, blob_name) == FALSE

\* AppendTop's first test: the output is named as the input at the SAME index
TopInPlace(layer_param, top_id, blob_name) ==
  Len(layer_param.bottom) > top_id /\ blob_name = At(layer_param.bottom, top_id)

\* a mutant: only a freshly allocated output is made available
TopAvailable_fresh(N, blob_name, fresh) == IF fresh THEN N.available_blobs \cup {blob_name} ELSE N.available_blobs

\* AppendTop's last line: available_blobs->insert(blob_name), in all cases
TopAvailable(N, blob_name, fresh) == N.available_blobs \cup {blob_name}

AppendTop(N, param, layer_id, top_id) ==
  LET layer_param == At(param.layer, layer_id)
      blob_name == IF Len(layer_param.top) > top_id THEN At(layer_param.top, top_id) ELSE "(automatic)"
  IN IF TopInPlace(layer_param, top_id, blob_name)
     THEN \* In-place computation
          LET idx == MapAt(N.blob_name_to_idx, blob_name)
          IN [N EXCEPT !.top_vecs_ = PushAt(@, layer_id, At(N.blobs_, idx)),
                       !.top_id_vecs_ = PushAt(@, layer_id, idx),
                       !.blob_name_to_idx = MapTouch(@, blob_name),
                       !.available_blobs = TopAvailable(N, blob_name, FALSE)]
     ELSE IF TopCollides(N, blob_name)
     THEN [N EXCEPT !.fatal = "Top blob produced by multiple sources."]
     ELSE \* Normal output.
          LET blob_id == Len(N.blobs_)
          IN [N EXCEPT !.blobs_ = Append(@, blob_id),
                       !.blob_names_ = Append(@, blob_name),
                       !.blob_need_backward_ = Append(@, FALSE),
                       !.blob_name_to_idx = MapPut(@, blob_name, blob_id),
                       !.top_id_vecs_ = PushAt(@, layer_id, blob_id),
                       !.top_vecs_ = PushAt(@, layer_id, blob_id),
                       !.available_blobs = TopAvailable(N, blob_name, TRUE)]

\* a mutant: every registered name is taken to be available
BottomKnown_registered(N, blob_name) == blob_name \in DOMAIN N.blob_name_to_idx

\* a mutant: every name is taken to be available
BottomKnown_always(N, blob_name) == TRUE

\* AppendBottom's test: the name is in available_blobs
BottomKnown(N, blob_name) == blob_name \in N.available_blobs

\* a mutant: a consumed name stays available
BottomErase_keep(N, blob_name) == N.available_blobs

\* available_blobs->erase(blob_name)
BottomErase(N, blob_name) == N.available_blobs \ {blob_name}

\* `oob` is the value that layer_param.propagate_down(bottom_id) yields when
\* bottom_id is not an index of the list (a read outside the repeated field)
AppendBottom(N, param, layer_id, bottom_id, oob) ==
  LET layer_param == At(param.layer, layer_id)
      blob_name == At(layer_param.bottom, bottom_id)
  IN IF ~BottomKnown(N, blob_name)
     THEN [N EXCEPT !.fatal = "Unknown bottom blob"]
     ELSE LET blob_id == MapAt(N.blob_name_to_idx, blob_name)
              need_backward == IF Len(layer_param.propagate_down) > 0
                               THEN IF bottom_id < Len(layer_param.propagate_down) THEN At(layer_param.propagate_down, bottom_id) ELSE oob
                               ELSE IF blob_id < Len(N.blob_need_backward_) THEN At(N.blob_need_backward_, blob_id) ELSE oob
          IN [N EXCEPT !.blob_name_to_idx = MapTouch(@, blob_name),
                       !.bottom_vecs_ = PushAt(@, layer_id, blob_id),
                       !.bottom_id_vecs_ = PushAt(@, layer_id, blob_id),
                       !.available_blobs = BottomErase(N, blob_name),
                       !.bottom_need_backward_ = PushAt(@, layer_id, need_backward)]

\* Blob::count(): the product of the dimensions
RECURSIVE Count(_)
Count(shape) == IF shape = <<>> THEN 1 ELSE Head(shape) * Count(Tail(shape))

\* the Blob object held by layers_[layer_id]->blobs()[param_id]
LayerBlob(N, layer_id, param_id) == At(At(N.layers_, layer_id).blobs, param_id)

\* a mutant: permissive sharing is checked like strict sharing
ShareCompatible_strict(share_mode, this_shape, owner_shape) == this_shape = owner_shape

\* the CHECK of the sharing branch: counts under PERMISSIVE, shapes otherwise
ShareCompatible(share_mode, this_shape, owner_shape) ==
  IF share_mode = "PERMISSIVE" THEN Count(this_shape) = Count(owner_shape) ELSE this_shape = owner_shape

\* a mutant: the multiplier of the sharing slot is recorded without the CHECK
ShareMult_noCheck(has, val, learnable_param_id, spec_has, spec_val) ==
  IF ~spec_has THEN [fatal |-> FALSE, has |-> has, val |-> val]
  ELSE [fatal |-> FALSE, has |-> [has EXCEPT ![learnable_param_id + 1] = TRUE], val |-> [val EXCEPT ![learnable_param_id + 1] = spec_val]]

\* the multiplier part of the sharing branch, for one of the two multipliers:
\* `has` and `val` are the vectors, `spec_has` and `spec_val` the slot's spec
ShareMult(has, val, learnable_param_id, spec_has, spec_val) ==
  IF ~spec_has THEN [fatal |-> FALSE, has |-> has, val |-> val]
  ELSE IF At(has, learnable_param_id)
  THEN [fatal |-> spec_val # At(val, learnable_param_id), has |-> has, val |-> val]
  ELSE [fatal |-> FALSE, has |-> [has EXCEPT ![learnable_param_id + 1] = TRUE], val |-> [val EXCEPT ![learnable_param_id + 1] = spec_val]]

\* a mutant: a sharing slot is given the first learnable index
SharedLearnableId_first(N, owner_net_param_id) == 0

\* learnable_param_ids_[owner_net_param_id]
SharedLearnableId(N, owner_net_param_id) == At(N.learnable_param_ids_, owner_net_param_id)

\* a mutant: every slot is taken to own its blob
ParamIsOwned_always(N, param_size, param_name) == TRUE

\* AppendParam's test: the unit declares no spec at all, or the slot has no
\* name, or the name is not in param_names_index_
ParamIsOwned(N, param_size, param_name) ==
  param_size = 0 \/ param_name = "" \/ (param_name # "" /\ param_name \notin DOMAIN N.param_names_index_)

AppendParam(N, layer_id, param_id) ==
  LET layer_param == At(N.layers_, layer_id).layer_param
      param_size == Len(layer_param.param)
      param_name == IF param_size > param_id THEN At(layer_param.param, param_id).name ELSE ""
      display == IF param_name # "" THEN param_name ELSE ToString(param_id)
      net_param_id == Len(N.params_)
      param_spec == IF param_size > param_id THEN At(layer_param.param, param_id) ELSE default_param_spec
      N1 == [N EXCEPT !.param_display_names_ = Append(@, display),
                      !.params_ = Append(@, LayerBlob(N, layer_id, param_id).ptr),
                      !.param_id_vecs_ = PushAt(@, layer_id, net_param_id),
                      !.param_layer_indices_ = Append(@, <<layer_id, param_id>>)]
  IN IF ParamIsOwned(N, param_size, param_name)
     THEN \* This layer "owns" this parameter blob
          [N1 EXCEPT !.param_owners_ = Append(@, -1),
                     !.param_names_index_ = IF param_name # "" THEN MapPut(@, param_name, net_param_id) ELSE @,
                     !.learnable_params_ = Append(@, At(N1.params_, net_param_id)),
                     !.learnable_param_ids_ = Append(@, Len(N.learnable_params_)),
                     !.has_params_lr_ = Append(@, param_spec.has_lr_mult),
                     !.has_params_decay_ = Append(@, param_spec.has_decay_mult),
                     !.params_lr_ = Append(@, param_spec.lr_mult),
                     !.params_weight_decay_ = Append(@, param_spec.decay_mult)]
     ELSE \* Named param blob with name we've seen before: share params
          LET owner_net_param_id == MapAt(N.param_names_index_, param_name)
              owner_index == At(N1.param_layer_indices_, owner_net_param_id)
              this_blob == LayerBlob(N, layer_id, param_id)
              owner_blob == LayerBlob(N, owner_index[1], owner_index[2])
              N2 == [N1 EXCEPT !.param_owners_ = Append(@, owner_net_param_id)]
          IN IF ~ShareCompatible(At(layer_param.param, param_id).share_mode, this_blob.shape, owner_blob.shape)
             THEN [N2 EXCEPT !.fatal = IF At(layer_param.param, param_id).share_mode = "PERMISSIVE" THEN "Cannot share param; count mismatch." ELSE "Cannot share param; shape mismatch."]
             ELSE LET learnable_param_id == SharedLearnableId(N, owner_net_param_id)
                      N3 == [N2 EXCEPT !.learnable_param_ids_ = Append(@, learnable_param_id)]
                      lr == ShareMult(N3.has_params_lr_, N3.params_lr_, learnable_param_id, param_spec.has_lr_mult, param_spec.lr_mult)
                      N4 == [N3 EXCEPT !.has_params_lr_ = lr.has, !.params_lr_ = lr.val]
                      decay == ShareMult(N4.has_params_decay_, N4.params_weight_decay_, learnable_param_id, param_spec.has_decay_mult, param_spec.decay_mult)
                  IN IF lr.fatal THEN [N3 EXCEPT !.fatal = "Shared param has mismatched lr_mult."]
                     ELSE IF decay.fatal THEN [N4 EXCEPT !.fatal = "Shared param has mismatched decay_mult."]
                     ELSE [N4 EXCEPT !.has_params_decay_ = decay.has, !.params_weight_decay_ = decay.val]

\* a mutant: the loop stops before the last name
IndexNames_dropLast(names, i, m) ==
  [x \in {names[k] : k \in 1..(Len(names) - 1)} |-> CHOOSE k \in 0..(Len(names) - 2) : names[k + 1] = x /\ \A o \in (k + 2)..(Len(names) - 1) : names[o] # x]

\* Net::Init after the unit loop: graph outputs and the two name indexes
RECURSIVE IndexNames(_, _, _)
IndexNames(names, i, m) == IF i >= Len(names) THEN m ELSE IndexNames(names, i + 1, MapPut(m, At(names, i), i))

\* a mutant: the remaining names are visited in the order of their buffers
AvailableOrder_byBuffer(N) == SelectSeq(N.blob_names_, LAMBDA n : n \in N.available_blobs)

\* the iteration over the std::set available_blobs
AvailableOrder(N) == SetInOrder(N.available_blobs)

FinishInit(N) ==
  LET outs == AvailableOrder(N)
  IN [N EXCEPT !.net_output_blobs_ = [i \in 1..Len(outs) |-> At(N.blobs_, MapAt(N.blob_name_to_idx, outs[i]))],
               !.net_output_blob_indices_ = [i \in 1..Len(outs) |-> MapAt(N.blob_name_to_idx, outs[i])],
               !.blob_names_index_ = IndexNames(N.blob_names_, 0, N.blob_names_index_),
               !.layer_names_index_ = IndexNames(N.layer_names_, 0, N.layer_names_index_)]

(***************************************************************************)
(* Execution Scheduler: ForwardFromTo, Forward.                            *)
(***************************************************************************)
\* a comparison  x < n  of an int x with a size_t n: x is converted to the
\* unsigned type, where a negative x is larger than the size of any vector
UnsignedLess(x, n) == IF x < 0 THEN FALSE ELSE x < n

\* CHECK_GE(start, 0)
StartInRange(start) == start >= 0

\* a mutant: the end of the range is compared as a signed number
EndInRange_signed(end, size) == end < size

\* CHECK_LT(end, layers_.size())
EndInRange(end, size) == UnsignedLess(end, size)

\* a mutant: the loop stops one unit early
ForwardContinues_exclusive(i, end) == i < end

\* the loop condition  i <= end
ForwardContinues(i, end) == i <= end

\* layers_[i]->Forward(bottom_vecs_[i], top_vecs_[i]): the unit and the
\* buffer lists it is run on
LayerForward(N, i) == [layer |-> i, bottom |-> At(N.bottom_vecs_, i), top |-> At(N.top_vecs_, i)]

\* layers_[i]->Reshape(bottom_vecs_[i], top_vecs_[i]): the unit and the
\* buffer lists it is reshaped on
LayerReshape(N, i) == [layer |-> i, bottom |-> At(N.bottom_vecs_, i), top |-> At(N.top_vecs_, i)]

\* the scalar objective contributions that the forward computation of a unit
\* may report
LayerLosses == 0..MaxLoss

\* real_t layer_loss = 0;  the value added to loss after the forward
\* computation of a unit that reported `reported`
LayerLoss(reported) == 0

\* the int that Forward passes as  layers_.size() - 1  (for an empty graph the
\* size_t difference wraps to all ones, which reads as the int -1)
LastIndex(N) == Len(N.layers_) - 1

\* the arguments tried for ForwardFromTo
ForwardArgs == (-1)..(MaxLayers + 1)

(***************************************************************************)
(* Query Surface: has_blob, blob_by_name, has_layer, layer_by_name.  A     *)
(* shared_ptr<Blob> is written as the Blob it points to, a                 *)
(* shared_ptr<Layer> as the index of the unit in layers_; `null` tells a   *)
(* null pointer.                                                           *)
(***************************************************************************)
has_blob(N, blob_name) == blob_name \in DOMAIN N.blob_names_index_

blob_by_name(N, blob_name) ==
  IF has_blob(N, blob_name)
  THEN [null |-> FALSE, ptr |-> At(N.blobs_, N.blob_names_index_[blob_name]), log |-> ""]
  ELSE [null |-> TRUE, ptr |-> -1, log |-> "Unknown blob name"]

has_layer(N, layer_name) == layer_name \in DOMAIN N.layer_names_index_

layer_by_name(N, layer_name) ==
  IF has_layer(N, layer_name)
  THEN [null |-> FALSE, ptr |-> N.layer_names_index_[layer_name], log |-> ""]
  ELSE [null |-> TRUE, ptr |-> -1, log |-> "Unknown layer name"]

(***************************************************************************)
(* Weight Transplanter: CopyTrainedLayersFrom.                             *)
(***************************************************************************)
\* a mutant: the last unit named source_layer_name is taken
FindTarget_last(layer_names, source_layer_name, target_layer_id) ==
  LET at == {k \in 0..(Len(layer_names) - 1) : At(layer_names, k) = source_layer_name}
  IN IF at = {} THEN Len(layer_names) ELSE CHOOSE k \in at : \A o \in at : o <= k

\* the while loop that looks for the first unit named source_layer_name
RECURSIVE FindTarget(_, _, _)
FindTarget(layer_names, source_layer_name, target_layer_id) ==
  IF target_layer_id # Len(layer_names) /\ At(layer_names, target_layer_id) # source_layer_name
  THEN FindTarget(layer_names, source_layer_name, target_layer_id + 1)
  ELSE target_layer_id

\* a mutant: a source unit with more tensors than the unit has blobs passes
CountsAgree_atLeast(target_blobs, source_layer) == Len(source_layer.blobs) >= Len(target_blobs)

\* CHECK_EQ(target_blobs.size(), source_layer.blobs_size())
CountsAgree(target_blobs, source_layer) == Len(target_blobs) = Len(source_layer.blobs)

\* Blob::ShapeEquals(const BlobProto&)
ShapeEquals(blob, proto) == blob.shape = proto.shape

\* Blob::FromProto(proto, reshape) on a blob of contents `contents`: with
\* reshape the blob takes the shape of the proto, without it the shapes must
\* agree; then the values of the proto are copied
BlobFromProto(blob, contents, proto, reshape) ==
  IF reshape THEN [fatal |-> "", shape |-> proto.shape, data |-> proto.data]
  ELSE IF ~ShapeEquals(blob, proto) THEN [fatal |-> "shape mismatch (reshape not set)", shape |-> blob.shape, data |-> contents]
  ELSE [fatal |-> "", shape |-> blob.shape, data |-> proto.data]

\* a mutant: the blob is reshaped to the source tensor
CopySlot_reshape(blob, contents, proto) == BlobFromProto(blob, contents, proto, TRUE)

\* the body of the loop over the blobs of the target unit
CopySlot(blob, contents, proto) ==
  IF ~ShapeEquals(blob, proto)
  THEN [fatal |-> "Cannot copy param weights; shape mismatch.", shape |-> blob.shape, data |-> contents]
  ELSE BlobFromProto(blob, contents, proto, FALSE)

\* a mutant: the shapes of all blobs are compared before any blob is written
CopyBlobs_checkFirst(blobs, data, source_layer, j) ==
  LET rest == j..(Len(blobs) - 1)
  IN IF \E k \in rest : ~ShapeEquals(At(blobs, k), At(source_layer.blobs, k))
     THEN [fatal |-> "Cannot copy param weights; shape mismatch.", blobs |-> blobs, data |-> data]
     ELSE [fatal |-> "", blobs |-> blobs,
           data |-> [ptr \in DOMAIN data |->
                       IF \E k \in rest : At(blobs, k).ptr = ptr
                       THEN At(source_layer.blobs, CHOOSE k \in rest : At(blobs, k).ptr = ptr).data
                       ELSE data[ptr]]]

\* the loop over the blobs of the target unit, from blob j on: `blobs` are the
\* blobs of the unit and `data` the contents of all parameter blobs
RECURSIVE CopyBlobs(_, _, _, _)
CopyBlobs(blobs, data, source_layer, j) ==
  IF j >= Len(blobs) THEN [fatal |-> "", blobs |-> blobs, data |-> data]
  ELSE LET r == CopySlot(At(blobs, j), data[At(blobs, j).ptr], At(source_layer.blobs, j))
       IN IF r.fatal # "" THEN [fatal |-> r.fatal, blobs |-> blobs, data |-> data]
          ELSE CopyBlobs([blobs EXCEPT ![j + 1].shape = r.shape], [data EXCEPT ![At(blobs, j).ptr] = r.data], source_layer, j + 1)

\* a mutant: a source unit that no unit of the graph is named after is
\* registered under its name
CopySourceLayer_register(N, data, source_layer) ==
  LET target_layer_id == FindTarget(N.layer_names_, source_layer.name, 0)
  IN IF target_layer_id = Len(N.layer_names_)
     THEN [fatal |-> "", net |-> [N EXCEPT !.layer_names_ = Append(@, source_layer.name)], data |-> data, log |-> "Ignoring source layer"]
     ELSE LET target_blobs == At(N.layers_, target_layer_id).blobs
          IN IF ~CountsAgree(target_blobs, source_layer)
             THEN [fatal |-> "Incompatible number of blobs for layer", net |-> N, data |-> data, log |-> ""]
             ELSE LET r == CopyBlobs(target_blobs, data, source_layer, 0)
                  IN [fatal |-> r.fatal, net |-> [N EXCEPT !.layers_[target_layer_id + 1].blobs = r.blobs], data |-> r.data, log |-> ""]

\* one iteration of the loop over the source units
CopySourceLayer(N, data, source_layer) ==
  LET target_layer_id == FindTarget(N.layer_names_, source_layer.name, 0)
  IN IF target_layer_id = Len(N.layer_names_)
     THEN [fatal |-> "", net |-> N, data |-> data, log |-> "Ignoring source layer"]
     ELSE LET target_blobs == At(N.layers_, target_layer_id).blobs
          IN IF ~CountsAgree(target_blobs, source_layer)
             THEN [fatal |-> "Incompatible number of blobs for layer", net |-> N, data |-> data, log |-> ""]
             ELSE LET r == CopyBlobs(target_blobs, data, source_layer, 0)
                  IN [fatal |-> r.fatal, net |-> [N EXCEPT !.layers_[target_layer_id + 1].blobs = r.blobs], data |-> r.data, log |-> ""]

(***************************************************************************)
(* Detection output: GetMaxScoreIndexEx, ApplyNMSFastEx.  A float is       *)
(* written as an integer of the same order; a box is written as its index  *)
(* in the list of boxes of the caller.                                     *)
(***************************************************************************)
\* the loop that generates the pairs <<score, index>>, from index i on
RECURSIVE ScorePairs(_, _, _)
ScorePairs(scores, threshold, i) ==
  IF i >= Len(scores) THEN <<>>
  ELSE (IF At(scores, i) > threshold THEN <<(<<At(scores, i), i>>)>> ELSE <<>>) \o ScorePairs(scores, threshold, i + 1)

\* SortScorePairDescend<int>: pair1 goes before pair2
SortScorePairDescend(pair1, pair2) == pair1[1] > pair2[1]

\* std::stable_sort: an element goes in front of the first element that it
\* goes before, and so behind the elements of its rank that came earlier
RECURSIVE InsertStable(_, _)
InsertStable(sorted, x) ==
  IF sorted = <<>> THEN <<x>>
  ELSE IF SortScorePairDescend(x, Head(sorted)) THEN <<x>> \o sorted
  ELSE <<Head(sorted)>> \o InsertStable(Tail(sorted), x)

RECURSIVE StableSort(_)
StableSort(v) == IF v = <<>> THEN <<>> ELSE InsertStable(StableSort(SubSeq(v, 1, Len(v) - 1)), v[Len(v)])

\* top_k > -1 && top_k < score_index_vec->size()
KeepTopK(top_k, size) == top_k > -1 /\ UnsignedLess(top_k, size)

GetMaxScoreIndexEx(scores, threshold, top_k, score_index_vec) ==
  LET sorted == StableSort(score_index_vec \o ScorePairs(scores, threshold, 0))
  IN IF KeepTopK(top_k, Len(sorted)) THEN SubSeq(sorted, 1, top_k) ELSE sorted

\* JaccardOverlap(bbox1, bbox2): the overlap of two boxes, read from the
\* table of the overlaps of the boxes of the caller
JaccardOverlap(overlaps, bbox1, bbox2) == overlaps[{bbox1, bbox2}]

\* a mutant: a box whose overlap is the threshold is dropped
OverlapAllows_strict(overlap, nms_threshold) == overlap < nms_threshold

\* keep = overlap <= nms_threshold
OverlapAllows(overlap, nms_threshold) == overlap <= nms_threshold

\* the for loop over the indices kept so far, from k on
RECURSIVE KeepLoop(_, _, _, _, _, _, _)
KeepLoop(bboxes, overlaps, idx, indices, nms_threshold, k, keep) ==
  IF k < Len(indices) /\ keep
  THEN KeepLoop(bboxes, overlaps, idx, indices, nms_threshold, k + 1,
                OverlapAllows(JaccardOverlap(overlaps, At(bboxes, idx), At(bboxes, At(indices, k))), nms_threshold))
  ELSE keep

(***************************************************************************)
(* The state machine.                                                      *)
(***************************************************************************)
VARIABLES
  pc,            \* "rule", "filter", "loop", "layer", "done", "fatal", ...
  rule_in,       \* the arguments of a StateMeetsRule call
  rule_out,      \* its result
  in_param,      \* the description handed to FilterNet
  filtered,      \* FilterNet's result
  param,         \* the filtered, split description, as far as Init has read it
  layer_size,    \* param.layer_size()
  layer_id, bottom_id, top_id, param_id,    \* the loop counters of Net::Init
  need_backward, \* the local of the unit loop
  net,           \* the Net object
  fwd,           \* a ForwardFromTo / Forward call on the built graph
  copy,          \* a CopyTrainedLayersFrom call on the built graph
  blob_data,     \* the contents of the parameter blobs of the units
  query,         \* a has_blob / blob_by_name / has_layer / layer_by_name call
  nms            \* an ApplyNMSFastEx call

vars == <<pc, rule_in, rule_out, in_param, filtered, param, layer_size, layer_id, bottom_id, top_id, param_id, need_backward, net, fwd, copy, blob_data, query, nms>>

ruleVars == <<rule_in, rule_out>>

filterVars == <<in_param, filtered>>

buildVars == <<param, layer_size, layer_id, bottom_id, top_id, param_id, need_backward, net>>

\* the counters of Net::Init, which the operations on a built graph leave alone
loopVars == <<param, layer_size, layer_id, bottom_id, top_id, param_id, need_backward>>

runVars == <<fwd, copy, blob_data, query, nms>>

NoRuleCall == [state |-> [phase |-> "TEST", level |-> 0, stage |-> <<>>], rule |-> [has_phase |-> FALSE, phase |-> "TRAIN", has_min_level |-> FALSE, min_level |-> 0, has_max_level |-> FALSE, max_level |-> 0, stage |-> <<>>, not_stage |-> <<>>]]

NoResult == [met |-> FALSE, log |-> "not called"]

NoNet == [state |-> [phase |-> "TEST", level |-> 0, stage |-> <<>>], layer |-> <<>>]

NoFilterResult == [fatal |-> "not called", layer |-> <<>>]

\* no ForwardFromTo / Forward call is in progress
IdleFwd == [op |-> "none", start |-> 0, end |-> 0, i |-> 0, loss |-> 0, invoked |-> <<>>, reported |-> <<>>, has_dest |-> FALSE, dest_written |-> FALSE, dest |-> 0, ret_loss |-> 0, ret_blobs |-> <<>>]

\* no CopyTrainedLayersFrom call is in progress
IdleCopy == [source |-> <<>>, num_source_layers |-> 0, i |-> 0, fatal |-> ""]

\* no lookup was made
IdleQuery == [op |-> "none", name |-> "", found |-> FALSE, result |-> -1]

\* no ApplyNMSFastEx call was made
IdleNMS == [bboxes |-> <<>>, overlaps |-> EmptyMap, scores |-> <<>>, score_threshold |-> 0, nms_threshold |-> 0, top_k |-> -1, score_index_vec |-> <<>>, indices |-> <<>>, fatal |-> ""]

IdleRun == fwd = IdleFwd /\ copy = IdleCopy /\ blob_data = EmptyMap /\ query = IdleQuery /\ nms = IdleNMS

IdleBuild ==
  /\ param = [layer |-> <<>>] /\ layer_size = 0 /\ layer_id = 0 /\ bottom_id = 0
  /\ top_id = 0 /\ param_id = -1 /\ need_backward = FALSE /\ net = EmptyNet

\* ---- the rule evaluator on its own ----
InitRule ==
  /\ pc = "rule"
  /\ rule_in \in [state : NetStates, rule : NetStateRules]
  /\ rule_out = NoResult
  /\ in_param = NoNet /\ filtered = NoFilterResult
  /\ IdleBuild /\ IdleRun

EvalRule ==
  /\ pc = "rule"
  /\ rule_out' = StateMeetsRule(rule_in.state, rule_in.rule)
  /\ pc' = "rule_done"
  /\ UNCHANGED <<rule_in, filterVars, buildVars, runVars>>

NextRule == EvalRule

SpecRule == InitRule /\ [][NextRule]_vars

\* ---- Net::Init up to the return of FilterNet ----
InitFilter ==
  /\ pc = "filter"
  /\ in_param \in RuleNets(MaxFilterLayers)
  /\ filtered = NoFilterResult
  /\ rule_in = NoRuleCall /\ rule_out = NoResult
  /\ IdleBuild /\ IdleRun

RunFilterNet ==
  /\ pc = "filter"
  /\ filtered' = FilterNet(in_param)
  /\ pc' = IF filtered'.fatal # "" THEN "fatal" ELSE "splits"
  /\ UNCHANGED <<in_param, ruleVars, buildVars, runVars>>

NextFilter == RunFilterNet

SpecFilter == InitFilter /\ [][NextFilter]_vars

\* ---- Net::Init from its unit loop on ----
\* The specifications below start where Init has filtered and split the
\* description: `param` is the description the unit loop walks.  Its length is
\* fixed at the start; its units are read, one per iteration, by StartLayer.
InitLoop ==
  /\ pc = "loop"
  /\ layer_size \in 0..MaxLayers
  /\ param = [layer |-> <<>>]
  /\ net = ResizeNet(EmptyNet, layer_size)
  /\ layer_id = 0 /\ bottom_id = 0 /\ top_id = 0 /\ param_id = -1
  /\ need_backward = FALSE
  /\ rule_in = NoRuleCall /\ rule_out = NoResult
  /\ in_param = NoNet /\ filtered = NoFilterResult
  /\ IdleRun

CurrentLayer == At(param.layer, layer_id)

\* a Blob created by unit layer_id as its parameter param_id
NewParamBlob(lid, shapes, k) == [ptr |-> <<lid, k - 1>>, shape |-> shapes[k]]

\* the head of the unit loop: the unit is created and named
StartLayer(layer_param) ==
  /\ pc = "loop" /\ layer_id < layer_size
  /\ param' = [layer |-> Append(param.layer, layer_param)]
  /\ net' = [net EXCEPT !.layers_ = Append(@, [layer_param |-> layer_param, blobs |-> <<>>]),
                        !.layer_names_ = Append(@, layer_param.name)]
  /\ need_backward' = FALSE
  /\ bottom_id' = 0 /\ top_id' = 0 /\ param_id' = -1
  /\ pc' = "layer"
  /\ UNCHANGED <<layer_size, layer_id, ruleVars, filterVars, runVars>>

\* one iteration of the loop over the unit's bottoms
AppendBottomStep ==
  /\ pc = "layer" /\ bottom_id < Len(CurrentLayer.bottom)
  /\ \E oob \in BOOLEAN :
       LET N == AppendBottom(net, param, layer_id, bottom_id, oob)
           blob_id == At(At(N.bottom_id_vecs_, layer_id), bottom_id)
       IN /\ net' = N
          /\ IF N.fatal # ""
             THEN pc' = "fatal" /\ UNCHANGED <<bottom_id, need_backward>>
             ELSE /\ pc' = pc
                  /\ bottom_id' = bottom_id + 1
                  /\ need_backward' = (need_backward \/ IF blob_id < Len(N.blob_need_backward_) THEN At(N.blob_need_backward_, blob_id) ELSE oob)
  /\ UNCHANGED <<param, layer_size, layer_id, top_id, param_id, ruleVars, filterVars, runVars>>

\* const int blob_id = blobs_.size() - 1;
InputBlobId(N, lid) == Len(N.blobs_) - 1

\* one iteration of the loop over the unit's tops
AppendTopStep ==
  /\ pc = "layer" /\ bottom_id = Len(CurrentLayer.bottom) /\ top_id < Len(CurrentLayer.top)
  /\ LET N == AppendTop(net, param, layer_id, top_id)
         blob_id == InputBlobId(N, layer_id)
     IN IF N.fatal # ""
        THEN net' = N /\ pc' = "fatal" /\ UNCHANGED top_id
        ELSE /\ net' = IF CurrentLayer.type = "Input"
                       THEN [N EXCEPT !.net_input_blob_indices_ = Append(@, blob_id),
                                      !.net_input_blobs_ = Append(@, At(N.blobs_, blob_id))]
                       ELSE N
             /\ pc' = pc
             /\ top_id' = top_id + 1
  /\ UNCHANGED <<param, layer_size, layer_id, bottom_id, param_id, need_backward, ruleVars, filterVars, runVars>>

\* a mutant: the number of parameter specs is not checked
ParamCountOk_always(param_size, num_param_blobs) == TRUE

\* CHECK_LE(param_size, num_param_blobs)
ParamCountOk(param_size, num_param_blobs) == param_size <= num_param_blobs

\* the unit is set up (it creates its parameter blobs) and the number of
\* parameter specs is checked against the number of blobs
SetUpStep ==
  /\ pc = "layer" /\ bottom_id = Len(CurrentLayer.bottom) /\ top_id = Len(CurrentLayer.top)
  /\ param_id = -1
  /\ LET shapes == CurrentLayer.blob_shapes
         N == [net EXCEPT !.layers_[layer_id + 1].blobs = [k \in 1..Len(shapes) |-> NewParamBlob(layer_id, shapes, k)]]
         param_size == Len(At(N.layers_, layer_id).layer_param.param)
         num_param_blobs == Len(At(N.layers_, layer_id).blobs)
     IN IF ~ParamCountOk(param_size, num_param_blobs)
        THEN /\ net' = [N EXCEPT !.fatal = "Too many params specified for layer"]
             /\ pc' = "fatal" /\ UNCHANGED <<param_id, layer_id>>
        ELSE /\ net' = N
             /\ IF num_param_blobs = 0
                THEN pc' = "loop" /\ layer_id' = layer_id + 1 /\ UNCHANGED param_id
                ELSE pc' = pc /\ param_id' = 0 /\ UNCHANGED layer_id
  /\ UNCHANGED <<param, layer_size, bottom_id, top_id, need_backward, ruleVars, filterVars, runVars>>

\* one iteration of the loop over the unit's parameter blobs
AppendParamStep ==
  /\ pc = "layer" /\ param_id >= 0 /\ param_id < Len(At(net.layers_, layer_id).blobs)
  /\ LET N == AppendParam(net, layer_id, param_id)
     IN /\ net' = N
        /\ IF N.fatal # ""
           THEN pc' = "fatal" /\ UNCHANGED <<param_id, layer_id>>
           ELSE IF param_id + 1 < Len(At(net.layers_, layer_id).blobs)
           THEN pc' = pc /\ param_id' = param_id + 1 /\ UNCHANGED layer_id
           ELSE pc' = "loop" /\ layer_id' = layer_id + 1 /\ UNCHANGED param_id
  /\ UNCHANGED <<param, layer_size, bottom_id, top_id, need_backward, ruleVars, filterVars, runVars>>

\* the end of Net::Init
Finish ==
  /\ pc = "loop" /\ layer_id = layer_size
  /\ net' = FinishInit(net)
  /\ pc' = "done"
  /\ UNCHANGED <<param, layer_size, layer_id, bottom_id, top_id, param_id, need_backward, ruleVars, filterVars, runVars>>

\* descriptions of wired units
StartWiredLayer == pc = "loop" /\ layer_id < layer_size /\ \E layer_param \in WiredLayers(layer_id) : StartLayer(layer_param)

NextBuild == StartWiredLayer \/ AppendBottomStep \/ AppendTopStep \/ SetUpStep \/ Finish

SpecBuild == InitLoop /\ [][NextBuild]_vars

\* descriptions of parameterised units
StartParamLayer == pc = "loop" /\ layer_id < layer_size /\ \E layer_param \in ParamLayers(layer_id) : StartLayer(layer_param)

NextParam == StartParamLayer \/ SetUpStep \/ AppendParamStep \/ Finish

SpecParam == InitLoop /\ [][NextParam]_vars

\* descriptions of units that share one parameter and give multipliers
StartMultLayer == pc = "loop" /\ layer_id < layer_size /\ \E layer_param \in MultLayers(layer_id) : StartLayer(layer_param)

NextMult == StartMultLayer \/ SetUpStep \/ AppendParamStep \/ Finish

SpecMult == InitLoop /\ [][NextMult]_vars

\* ---- ForwardFromTo and Forward on a built graph ----
\* the descriptions that are built and then run: units with at most one
\* bottom and at most one top
ChainLayers(i) == {[PlainLayer(i) EXCEPT !.bottom = b, !.top = tp] : b \in SeqsUpTo(BlobNames, 1), tp \in SeqsUpTo(BlobNames, 1)}

StartChainLayer == pc = "loop" /\ layer_id < layer_size /\ \E layer_param \in ChainLayers(layer_id) : StartLayer(layer_param)

\* the entry of ForwardFromTo: the two CHECKs and the initialisation of the loop
EnterForward(op, start, end, has_dest) ==
  /\ fwd' = [IdleFwd EXCEPT !.op = op, !.start = start, !.end = end, !.i = start, !.has_dest = has_dest]
  /\ IF ~StartInRange(start)
     THEN pc' = "fatal" /\ net' = [net EXCEPT !.fatal = "Check failed: start >= 0"]
     ELSE IF ~EndInRange(end, Len(net.layers_))
     THEN pc' = "fatal" /\ net' = [net EXCEPT !.fatal = "Check failed: end < layers_.size()"]
     ELSE pc' = "forward" /\ UNCHANGED net
  /\ UNCHANGED <<loopVars, ruleVars, filterVars, copy, blob_data, query, nms>>

CallForwardFromTo == pc = "done" /\ \E start \in ForwardArgs, end \in ForwardArgs : EnterForward("ForwardFromTo", start, end, FALSE)

\* Forward(loss), with a null or a non-null destination
CallForward == pc = "done" /\ \E has_dest \in BOOLEAN : EnterForward("Forward", 0, LastIndex(net), has_dest)

\* one iteration of the loop of ForwardFromTo
ForwardStep ==
  /\ pc = "forward" /\ ForwardContinues(fwd.i, fwd.end)
  /\ \E reported \in LayerLosses :
       fwd' = [fwd EXCEPT !.invoked = Append(@, LayerForward(net, fwd.i)),
                          !.reported = Append(@, reported),
                          !.loss = @ + LayerLoss(reported),
                          !.i = @ + 1]
  /\ UNCHANGED <<pc, buildVars, ruleVars, filterVars, copy, blob_data, query, nms>>

\* the return of ForwardFromTo and, for Forward, the store through `loss` and
\* the return of net_output_blobs_
ForwardReturn ==
  /\ pc = "forward" /\ ~ForwardContinues(fwd.i, fwd.end)
  /\ fwd' = [fwd EXCEPT !.ret_loss = fwd.loss,
                        !.dest_written = (fwd.op = "Forward" /\ fwd.has_dest),
                        !.dest = IF fwd.op = "Forward" /\ fwd.has_dest THEN fwd.loss ELSE @,
                        !.ret_blobs = IF fwd.op = "Forward" THEN net.net_output_blobs_ ELSE @]
  /\ pc' = "returned"
  /\ UNCHANGED <<buildVars, ruleVars, filterVars, copy, blob_data, query, nms>>

\* the caller goes on with the built graph
Resume ==
  /\ pc = "returned"
  /\ pc' = "done" /\ fwd' = IdleFwd /\ query' = IdleQuery
  /\ UNCHANGED <<buildVars, ruleVars, filterVars, copy, blob_data, nms>>

NextForward == StartChainLayer \/ AppendBottomStep \/ AppendTopStep \/ SetUpStep \/ Finish \/ CallForwardFromTo \/ CallForward \/ ForwardStep \/ ForwardReturn \/ Resume

SpecForward == InitLoop /\ [][NextForward]_vars

\* ---- CopyTrainedLayersFrom on a built graph ----
CopyNames == {"u0", "u1"}

\* vectors of one element count
CopyShapes == {<<1, 2>>, <<2, 1>>}

\* the units of the graphs that receive parameters: a name and the blobs the
\* unit creates, no parameter spec
CopyLayers(i) == {[PlainLayer(i) EXCEPT !.name = n, !.blob_shapes = sh] : n \in CopyNames, sh \in SeqsUpTo(CopyShapes, MaxCopyBlobs)}

\* the units of a source: a name and tensors (BlobProto: shape and values);
\* the values of tensor k of source unit i are written <<"src", i, k>>
SourceLayers(i) == {[name |-> n, blobs |-> [k \in 1..Len(sh) |-> [shape |-> sh[k], data |-> <<"src", i, k - 1>>]]] : n \in CopyNames, sh \in SeqsUpTo(CopyShapes, MaxCopyBlobs)}

\* the blobs of all units, and their contents when CopyTrainedLayersFrom is
\* called: the values of blob k of unit l are written <<"live", l, k>>
ParamBlobPtrs(N) == {<<l, k>> : l \in 0..(Len(N.layers_) - 1), k \in 0..(MaxCopyBlobs - 1)} \cap UNION {{b.ptr : b \in Range(At(N.layers_, l).blobs)} : l \in 0..(Len(N.layers_) - 1)}

InitialContents(N) == [ptr \in ParamBlobPtrs(N) |-> <<"live", ptr[1], ptr[2]>>]

InitCopy == InitLoop /\ layer_size <= MaxCopyLayers

StartCopyLayer == pc = "loop" /\ layer_id < layer_size /\ \E layer_param \in CopyLayers(layer_id) : StartLayer(layer_param)

\* the call: num_source_layers = param.layer_size()
CallCopy ==
  /\ pc = "done"
  /\ \E n \in 0..MaxCopyLayers : copy' = [IdleCopy EXCEPT !.num_source_layers = n]
  /\ blob_data' = InitialContents(net)
  /\ pc' = "copy"
  /\ UNCHANGED <<buildVars, ruleVars, filterVars, fwd, query, nms>>

\* one iteration of the loop over the source units; the source unit is read
CopySourceStep ==
  /\ pc = "copy" /\ copy.i < copy.num_source_layers
  /\ \E source_layer \in SourceLayers(copy.i) :
       LET r == CopySourceLayer(net, blob_data, source_layer)
       IN /\ blob_data' = r.data
          /\ IF r.fatal # ""
             THEN /\ net' = [r.net EXCEPT !.fatal = r.fatal]
                  /\ copy' = [copy EXCEPT !.source = Append(@, source_layer), !.fatal = r.fatal]
                  /\ pc' = "fatal"
             ELSE /\ net' = r.net
                  /\ copy' = [copy EXCEPT !.source = Append(@, source_layer), !.i = @ + 1]
                  /\ pc' = pc
  /\ UNCHANGED <<loopVars, ruleVars, filterVars, fwd, query, nms>>

CopyReturn ==
  /\ pc = "copy" /\ copy.i = copy.num_source_layers
  /\ pc' = "copied"
  /\ UNCHANGED <<buildVars, ruleVars, filterVars, runVars>>

NextCopy == StartCopyLayer \/ SetUpStep \/ AppendParamStep \/ Finish \/ CallCopy \/ CopySourceStep \/ CopyReturn

SpecCopy == InitCopy /\ [][NextCopy]_vars

\* ---- lookups on a built graph ----
\* the units of the graphs that are looked into: a name and at most one top
QueryLayers(i) == {[PlainLayer(i) EXCEPT !.name = n, !.top = tp] : n \in CopyNames, tp \in SeqsUpTo(BlobNames, 1)}

\* the names looked up: the buffer names, the unit names and two other names
QueryNames == BlobNames \cup CopyNames \cup {"", "data"}

StartQueryLayer == pc = "loop" /\ layer_id < layer_size /\ \E layer_param \in QueryLayers(layer_id) : StartLayer(layer_param)

LookupBlob ==
  /\ pc = "done"
  /\ \E name \in QueryNames :
       \/ query' = [op |-> "has_blob", name |-> name, found |-> has_blob(net, name), result |-> -1]
       \/ query' = [op |-> "blob_by_name", name |-> name, found |-> ~blob_by_name(net, name).null, result |-> blob_by_name(net, name).ptr]
  /\ pc' = "returned"
  /\ UNCHANGED <<buildVars, ruleVars, filterVars, fwd, copy, blob_data, nms>>

LookupLayer ==
  /\ pc = "done"
  /\ \E name \in QueryNames :
       \/ query' = [op |-> "has_layer", name |-> name, found |-> has_layer(net, name), result |-> -1]
       \/ query' = [op |-> "layer_by_name", name |-> name, found |-> ~layer_by_name(net, name).null, result |-> layer_by_name(net, name).ptr]
  /\ pc' = "returned"
  /\ UNCHANGED <<buildVars, ruleVars, filterVars, fwd, copy, blob_data, nms>>

NextQuery == StartQueryLayer \/ AppendTopStep \/ SetUpStep \/ Finish \/ LookupBlob \/ LookupLayer \/ Resume

SpecQuery == InitLoop /\ [][NextQuery]_vars

\* ---- Net::Init on units that override propagation ----
\* the unit records with a propagate_down list: every list up to MaxBlobs
\* flags, whatever the number of bottoms
PropLayers(i) == {[PlainLayer(i) EXCEPT !.bottom = b, !.top = tp, !.propagate_down = pd] : b \in SeqsUpTo(BlobNames, MaxBlobs), tp \in SeqsUpTo(BlobNames, MaxBlobs), pd \in SeqsUpTo(BOOLEAN, MaxBlobs)}

InitProp == InitLoop /\ layer_size <= MaxPropLayers

StartPropLayer == pc = "loop" /\ layer_id < layer_size /\ \E layer_param \in PropLayers(layer_id) : StartLayer(layer_param)

NextProp == StartPropLayer \/ AppendBottomStep \/ AppendTopStep \/ SetUpStep \/ Finish

SpecProp == InitProp /\ [][NextProp]_vars

\* ---- Net::Init on units with any numbers of specs and blobs ----
\* the unit records: up to MaxCountParams specs, anonymous or named "w", and
\* up to MaxCountParams parameter blobs of one shape
CountLayers(i) == {[PlainLayer(i) EXCEPT !.param = ps, !.blob_shapes = sh] : ps \in SeqsUpTo({default_param_spec, [default_param_spec EXCEPT !.name = "w"]}, MaxCountParams), sh \in SeqsUpTo({<<1, 1>>}, MaxCountParams)}

InitCount == InitLoop /\ layer_size <= MaxCountLayers

StartCountLayer == pc = "loop" /\ layer_id < layer_size /\ \E layer_param \in CountLayers(layer_id) : StartLayer(layer_param)

NextCount == StartCountLayer \/ SetUpStep \/ AppendParamStep \/ Finish

SpecCount == InitCount /\ [][NextCount]_vars

\* ---- every operation on a built graph ----
\* the units of the graphs that are operated on: a name, at most one bottom,
\* at most one top and at most one parameter blob
OpsLayers(i) == {[l EXCEPT !.name = n, !.blob_shapes = sh] : l \in ChainLayers(i), n \in CopyNames, sh \in SeqsUpTo(CopyShapes, 1)}

StartOpsLayer == pc = "loop" /\ layer_id < layer_size /\ \E layer_param \in OpsLayers(layer_id) : StartLayer(layer_param)

\* Reshape(): the start of the loop over the units
CallReshape ==
  /\ pc = "done"
  /\ fwd' = [IdleFwd EXCEPT !.op = "Reshape"]
  /\ pc' = "reshape"
  /\ UNCHANGED <<buildVars, ruleVars, filterVars, copy, blob_data, query, nms>>

\* one iteration of the loop of Reshape
ReshapeStep ==
  /\ pc = "reshape" /\ fwd.i < Len(net.layers_)
  /\ fwd' = [fwd EXCEPT !.invoked = Append(@, LayerReshape(net, fwd.i)), !.i = @ + 1]
  /\ UNCHANGED <<pc, buildVars, ruleVars, filterVars, copy, blob_data, query, nms>>

ReshapeReturn ==
  /\ pc = "reshape" /\ ~(fwd.i < Len(net.layers_))
  /\ pc' = "returned"
  /\ UNCHANGED <<buildVars, ruleVars, filterVars, runVars>>

\* the caller goes on with the graph that received the parameters
ResumeCopy ==
  /\ pc = "copied"
  /\ pc' = "done" /\ copy' = IdleCopy /\ blob_data' = EmptyMap
  /\ UNCHANGED <<buildVars, ruleVars, filterVars, fwd, query, nms>>

NextOps ==
  \/ StartOpsLayer \/ AppendBottomStep \/ AppendTopStep \/ SetUpStep \/ AppendParamStep \/ Finish
  \/ CallForwardFromTo \/ CallForward \/ ForwardStep \/ ForwardReturn \/ Resume
  \/ CallReshape \/ ReshapeStep \/ ReshapeReturn
  \/ CallCopy \/ CopySourceStep \/ CopyReturn \/ ResumeCopy
  \/ LookupBlob \/ LookupLayer

SpecOps == InitCopy /\ [][NextOps]_vars

\* ---- ApplyNMSFastEx ----
\* the overlaps of n boxes: one value for every two boxes
OverlapTables(n) == [{{i, j} : i \in 0..(n - 1), j \in 0..(n - 1)} \ {{i} : i \in 0..(n - 1)} -> 0..MaxOverlap]

\* the calls with n boxes and n scores, as DetectionOutputLayer makes them
NMSCalls(n) ==
  {[IdleNMS EXCEPT !.bboxes = [i \in 1..n |-> i - 1], !.overlaps = o, !.scores = sc, !.score_threshold = st, !.nms_threshold = nt, !.top_k = tk] :
     o \in OverlapTables(n), sc \in [1..n -> 0..MaxScore], st \in 0..(MaxScore - 1), nt \in 0..(MaxOverlap - 1), tk \in (-1)..n}

InitNMS ==
  /\ pc = "nms"
  /\ \E n \in 0..MaxBoxes : nms \in NMSCalls(n)
  /\ fwd = IdleFwd /\ copy = IdleCopy /\ blob_data = EmptyMap /\ query = IdleQuery
  /\ rule_in = NoRuleCall /\ rule_out = NoResult
  /\ in_param = NoNet /\ filtered = NoFilterResult
  /\ IdleBuild

\* the entry of ApplyNMSFastEx: the sanity check, the call of
\* GetMaxScoreIndexEx and indices->clear()
CallApplyNMSFastEx ==
  /\ pc = "nms"
  /\ IF Len(nms.bboxes) # Len(nms.scores)
     THEN pc' = "fatal" /\ nms' = [nms EXCEPT !.fatal = "bboxes and scores have different size."]
     ELSE /\ pc' = "nms_loop"
          /\ nms' = [nms EXCEPT !.score_index_vec = GetMaxScoreIndexEx(nms.scores, nms.score_threshold, nms.top_k, <<>>),
                                !.indices = <<>>]
  /\ UNCHANGED <<buildVars, ruleVars, filterVars, fwd, copy, blob_data, query>>

\* one iteration of the while loop
NMSStep ==
  /\ pc = "nms_loop" /\ Len(nms.score_index_vec) # 0
  /\ LET idx == Head(nms.score_index_vec)[2]
         keep == KeepLoop(nms.bboxes, nms.overlaps, idx, nms.indices, nms.nms_threshold, 0, TRUE)
     IN nms' = [nms EXCEPT !.indices = IF keep THEN Append(@, idx) ELSE @,
                           !.score_index_vec = Tail(@)]
  /\ UNCHANGED <<pc, buildVars, ruleVars, filterVars, fwd, copy, blob_data, query>>

NMSReturn ==
  /\ pc = "nms_loop" /\ Len(nms.score_index_vec) = 0
  /\ pc' = "nms_done"
  /\ UNCHANGED <<buildVars, ruleVars, filterVars, runVars>>

NextNMS == CallApplyNMSFastEx \/ NMSStep \/ NMSReturn

SpecNMS == InitNMS /\ [][NextNMS]_vars

\* the call runs on: it is one sequential function
SpecNMSLive == SpecNMS /\ WF_vars(NextNMS)

(***************************************************************************)
(* Claims about the rule evaluator (SpecRule).                             *)
(***************************************************************************)
PhaseOk(state, rule) == ~rule.has_phase \/ rule.phase = state.phase

MinLevelOk(state, rule) == ~rule.has_min_level \/ state.level >= rule.min_level

MaxLevelOk(state, rule) == ~rule.has_max_level \/ state.level <= rule.max_level

StagesOk(state, rule) == \A s \in Range(rule.stage) : s \in Range(state.stage)

NotStagesOk(state, rule) == \A s \in Range(rule.not_stage) : s \notin Range(state.stage)

FirstUnmet(state, rule) ==
  IF ~PhaseOk(state, rule) THEN "phase"
  ELSE IF ~MinLevelOk(state, rule) THEN "min_level"
  ELSE IF ~MaxLevelOk(state, rule) THEN "max_level"
  ELSE IF ~StagesOk(state, rule) THEN "stage"
  ELSE IF ~NotStagesOk(state, rule) THEN "not_stage"
  ELSE ""

RuleIsEmpty(rule) == ~rule.has_phase /\ ~rule.has_min_level /\ ~rule.has_max_level /\ rule.stage = <<>> /\ rule.not_stage = <<>>

\* C7: StateMeetsRule returns true iff the phase, min-level, max-level,
\* required-stage and forbidden-stage sub-conditions all hold; when it
\* returns false the sub-condition it reports is the first unmet one in the
\* order phase, min-level, max-level, stages, not-stages; a rule without
\* sub-conditions is met by every state.
C7_StateMeetsRule ==
  pc = "rule_done" =>
    /\ rule_out.met = (/\ PhaseOk(rule_in.state, rule_in.rule)
                       /\ MinLevelOk(rule_in.state, rule_in.rule)
                       /\ MaxLevelOk(rule_in.state, rule_in.rule)
                       /\ StagesOk(rule_in.state, rule_in.rule)
                       /\ NotStagesOk(rule_in.state, rule_in.rule))
    /\ rule_out.log = FirstUnmet(rule_in.state, rule_in.rule)
    /\ (RuleIsEmpty(rule_in.rule) => rule_out.met)

\* a call in which the min-level and the max-level conditions, a required
\* stage and a forbidden stage are all unmet, and min-level is the one reported
C7_Witness ==
  /\ pc = "rule_done"
  /\ PhaseOk(rule_in.state, rule_in.rule)
  /\ ~MinLevelOk(rule_in.state, rule_in.rule) /\ ~MaxLevelOk(rule_in.state, rule_in.rule)
  /\ ~StagesOk(rule_in.state, rule_in.rule) /\ ~NotStagesOk(rule_in.state, rule_in.rule)
  /\ rule_out = [met |-> FALSE, log |-> "min_level"]

(***************************************************************************)
(* Claims about the graph filter (SpecFilter).                             *)
(***************************************************************************)
RuleMet(state, rule) ==
  /\ PhaseOk(state, rule) /\ MinLevelOk(state, rule) /\ MaxLevelOk(state, rule)
  /\ StagesOk(state, rule) /\ NotStagesOk(state, rule)

HasBoth(u) == Len(u.include) > 0 /\ Len(u.exclude) > 0

Admitted(state, u) ==
  \/ Len(u.include) > 0 /\ \E j \in 1..Len(u.include) : RuleMet(state, u.include[j])
  \/ Len(u.include) = 0 /\ \A j \in 1..Len(u.exclude) : ~RuleMet(state, u.exclude[j])

\* C6: for a description in which no unit has both include and exclude
\* rules, FilterNet returns exactly the subsequence of the units that have an
\* include rule met by the state, or have no include rule and no exclude
\* rule met by the state, in the original order and unmodified.
C6_FilterNet ==
  (pc # "filter" /\ \A i \in 1..Len(in_param.layer) : ~HasBoth(in_param.layer[i])) =>
    /\ pc = "splits"
    /\ filtered.fatal = ""
    /\ filtered.layer = SelectSeq(in_param.layer, LAMBDA u : Admitted(in_param.state, u))

\* FilterNet has kept a unit whose second include rule is the one that is met
\* and dropped a unit because of its second exclude rule
C6_Witness ==
  /\ pc = "splits"
  /\ Len(in_param.layer) = 2 /\ Len(filtered.layer) = 1
  /\ filtered.layer[1] = in_param.layer[2]
  /\ Len(in_param.layer[2].include) = 2
  /\ ~RuleMet(in_param.state, in_param.layer[2].include[1])
  /\ Len(in_param.layer[1].exclude) = 2
  /\ ~RuleMet(in_param.state, in_param.layer[1].exclude[1])

\* C8: whenever some unit of the description declares both an include and an
\* exclude rule, FilterNet ends Init with the fatal error, whatever the
\* runtime state and whether or not the rules would have admitted the unit,
\* and no unit has been instantiated.
C8_BothRulesFatal ==
  (pc # "filter" /\ \E i \in 1..Len(in_param.layer) : HasBoth(in_param.layer[i])) =>
    /\ pc = "fatal"
    /\ filtered.fatal = "Specify either include rules or exclude rules; not both."
    /\ net.layers_ = <<>> /\ layer_id = 0

\* Init aborted on a second unit that has both kinds of rules, its include
\* rule being met and its exclude rule not
C8_Witness ==
  /\ pc = "fatal"
  /\ Len(in_param.layer) = 2
  /\ ~HasBoth(in_param.layer[1]) /\ Admitted(in_param.state, in_param.layer[1])
  /\ HasBoth(in_param.layer[2])
  /\ RuleMet(in_param.state, in_param.layer[2].include[1])
  /\ \A j \in 1..Len(in_param.layer[2].exclude) : ~RuleMet(in_param.state, in_param.layer[2].exclude[j])

(***************************************************************************)
(* Claims about the wiring of buffers (SpecBuild).                         *)
(***************************************************************************)
NumLayers == Len(net.layers_)

NumBlobs == Len(net.blobs_)

BottomIds(i) == At(net.bottom_id_vecs_, i)

TopIds(i) == At(net.top_id_vecs_, i)

\* x precedes y in std::string order
StrLess(x, y) == \E i, j \in 1..Len(NameOrder) : i < j /\ NameOrder[i] = x /\ NameOrder[j] = y

\* Init is about to run AppendTop for output top_id of unit layer_id
TopPending == pc = "layer" /\ bottom_id = Len(CurrentLayer.bottom) /\ top_id < Len(CurrentLayer.top)

PendingTopName == At(CurrentLayer.top, top_id)

\* output t of unit i is declared with the name of the unit's input t
DeclaredInPlace(i, t) ==
  LET u == At(param.layer, i) IN t < Len(u.bottom) /\ At(u.top, t) = At(u.bottom, t)

\* C1: every buffer in the bottom_ids of a unit is in the top_ids of a
\* strictly earlier unit.
C1_TopologicalOrder ==
  \A i \in 0..(NumLayers - 1) : \A b \in Range(BottomIds(i)) :
    \E j \in 0..(i - 1) : b \in Range(TopIds(j))

\* a built graph whose third unit consumes two buffers, one of them after an
\* earlier unit rewrote it in place
C1_Witness ==
  /\ pc = "done" /\ NumLayers = 3
  /\ Len(BottomIds(2)) = 2
  /\ Len(BottomIds(1)) = 1 /\ TopIds(1) = BottomIds(1)
  /\ BottomIds(1)[1] \in Range(BottomIds(2))

\* C2 as claimed: an output named like ANY input of its unit allocates no
\* buffer, does not abort the build, and gets the index of the aliased input.
C2_InPlaceAnyPosition ==
  [][(TopPending /\ PendingTopName \in Range(CurrentLayer.bottom)) =>
       /\ pc' # "fatal"
       /\ net'.blobs_ = net.blobs_ /\ net'.blob_names_ = net.blob_names_
       /\ \E k \in 0..(Len(CurrentLayer.bottom) - 1) :
            /\ At(CurrentLayer.bottom, k) = PendingTopName
            /\ At(At(net'.top_id_vecs_, layer_id), top_id) = At(BottomIds(layer_id), k)]_vars

\* C2, amended: an output named like the input AT THE SAME INDEX of its unit
\* allocates no buffer, does not abort the build, and gets the buffer index
\* recorded in bottom_ids for that input.
C2_InPlaceSamePosition ==
  [][(TopPending /\ DeclaredInPlace(layer_id, top_id)) =>
       /\ pc' = "layer" /\ top_id' = top_id + 1
       /\ net'.blobs_ = net.blobs_ /\ net'.blob_names_ = net.blob_names_
       /\ At(At(net'.top_id_vecs_, layer_id), top_id) = At(BottomIds(layer_id), top_id)]_vars

\* a unit with two inputs has just declared its second output in place
C2_Witness ==
  /\ pc = "layer" /\ top_id = 2 /\ Len(CurrentLayer.bottom) = 2
  /\ DeclaredInPlace(layer_id, 1) /\ ~DeclaredInPlace(layer_id, 0)
  /\ TopIds(layer_id)[2] = BottomIds(layer_id)[2]
  /\ net.fatal = ""

\* the (unit, output) pairs that allocated buffer b
Producers(b) == {it \in (0..(NumLayers - 1)) \X (0..(MaxBlobs - 1)) : /\ it[2] < Len(TopIds(it[1])) /\ At(TopIds(it[1]), it[2]) = b /\ ~DeclaredInPlace(it[1], it[2])}

\* C3: an output whose name is already in the buffer registry and that is
\* not in place ends Init with the 'produced by multiple sources' error; in
\* a built graph every buffer is the fresh output of exactly one unit.
C3_SingleProducer ==
  /\ [](pc = "done" => \A b \in 0..(NumBlobs - 1) : Cardinality(Producers(b)) = 1)
  /\ [][(TopPending /\ ~DeclaredInPlace(layer_id, top_id) /\ PendingTopName \in Range(net.blob_names_)) =>
          (pc' = "fatal" /\ net'.fatal = "Top blob produced by multiple sources." /\ net'.blobs_ = net.blobs_)]_vars

\* Init aborted on a unit whose second output repeats the name of the buffer
\* that an earlier unit produced and that this unit does not consume
C3_Witness ==
  /\ pc = "fatal" /\ net.fatal = "Top blob produced by multiple sources."
  /\ layer_id = 1 /\ top_id = 1
  /\ PendingTopName \in Range(At(param.layer, 0).top)
  /\ PendingTopName \notin Range(CurrentLayer.bottom)

\* the buffers that no unit lists among its inputs
NeverConsumed == {b \in 0..(NumBlobs - 1) : \A i \in 0..(NumLayers - 1) : b \notin Range(BottomIds(i))}

\* the buffers whose every consumer is the same as, or followed by, a unit
\* that lists the buffer among its outputs
LastWritten == {b \in 0..(NumBlobs - 1) : \A i \in 0..(NumLayers - 1) : b \in Range(BottomIds(i)) => \E j \in i..(NumLayers - 1) : b \in Range(TopIds(j))}

\* C4 as claimed: the graph outputs are exactly the buffers that are in no
\* unit's bottom_ids.
C4_OutputsNeverConsumed ==
  pc = "done" => Range(net.net_output_blob_indices_) = NeverConsumed

\* C4, amended: the graph outputs are exactly the buffers that no unit
\* consumes after their last production: the buffers in no bottom_ids list
\* and the buffers whose last consumer rewrites them in place.
C4_OutputsLastWritten ==
  pc = "done" =>
    /\ Range(net.net_output_blob_indices_) = LastWritten
    /\ NeverConsumed \subseteq LastWritten
    /\ Len(net.net_output_blob_indices_) = Cardinality(LastWritten)

\* a built graph with an output that its last unit consumed and rewrote in
\* place, and a buffer that is consumed and is no output
C4_Witness ==
  /\ pc = "done" /\ NumLayers = 3
  /\ \E b \in Range(net.net_output_blob_indices_) : b \in Range(BottomIds(2)) /\ b \in Range(TopIds(2))
  /\ \E b \in 0..(NumBlobs - 1) : b \notin Range(net.net_output_blob_indices_)
  /\ NeverConsumed # LastWritten

\* the place of the last production of buffer b: unit, then output index
LastProduced(b) ==
  LET at == {it \in (0..(NumLayers - 1)) \X (0..(MaxBlobs - 1)) : it[2] < Len(TopIds(it[1])) /\ At(TopIds(it[1]), it[2]) = b}
  IN CHOOSE it \in at : \A o \in at : o[1] < it[1] \/ (o[1] = it[1] /\ o[2] <= it[2])

Before(x, y) == x[1] < y[1] \/ (x[1] = y[1] /\ x[2] < y[2])

\* C5 as claimed: the graph outputs are listed in the order in which the
\* buffers were last produced, whatever the buffer names.
C5_OutputsInProductionOrder ==
  pc = "done" =>
    \A p, q \in 1..Len(net.net_output_blob_indices_) :
      p < q => Before(LastProduced(net.net_output_blob_indices_[p]), LastProduced(net.net_output_blob_indices_[q]))

\* C5, amended: the graph outputs are listed in ascending string order of
\* their buffer names, and output_blobs lists the same buffers as
\* output_blob_indices.
C5_OutputsInNameOrder ==
  pc = "done" =>
    /\ \A p, q \in 1..Len(net.net_output_blob_indices_) :
         p < q => StrLess(At(net.blob_names_, net.net_output_blob_indices_[p]), At(net.blob_names_, net.net_output_blob_indices_[q]))
    /\ Len(net.net_output_blobs_) = Len(net.net_output_blob_indices_)
    /\ \A p \in 1..Len(net.net_output_blob_indices_) : net.net_output_blobs_[p] = At(net.blobs_, net.net_output_blob_indices_[p])

\* a built graph with two outputs, the one listed first produced last
C5_Witness ==
  /\ pc = "done"
  /\ Len(net.net_output_blob_indices_) = 2
  /\ Before(LastProduced(net.net_output_blob_indices_[2]), LastProduced(net.net_output_blob_indices_[1]))

(***************************************************************************)
(* Claims about parameter sharing (SpecParam).                             *)
(***************************************************************************)
NumParams == Len(net.params_)

\* Init is about to run AppendParam for blob param_id of unit layer_id
ParamPending == pc = "layer" /\ param_id >= 0 /\ param_id < Len(At(net.layers_, layer_id).blobs)

\* the spec the description gives for parameter p of unit l, if any
DeclaredSpec(l, p) ==
  LET u == At(param.layer, l) IN IF p < Len(u.param) THEN At(u.param, p) ELSE default_param_spec

\* the declared name and the shape of net parameter k
SlotName(k) == DeclaredSpec(At(net.param_layer_indices_, k)[1], At(net.param_layer_indices_, k)[2]).name

SlotShape(k) == At(At(param.layer, At(net.param_layer_indices_, k)[1]).blob_shapes, At(net.param_layer_indices_, k)[2])

\* the earlier slots that carry name n
Introducers(n) == {k \in 0..(NumParams - 1) : SlotName(k) = n}

FirstIntroducer(n) == CHOOSE k \in Introducers(n) : \A o \in Introducers(n) : k <= o

DimensionErrors == {"Cannot share param; count mismatch.", "Cannot share param; shape mismatch."}

\* C9: for a slot whose non-empty name an earlier slot introduced: strict
\* mode with a shape other than the owner's is fatal; permissive mode with
\* the owner's element count is accepted (the shapes may differ) and the
\* slot gets the owner's learnable index; permissive mode with another
\* element count is fatal.
C9_ShareModes ==
  [][(ParamPending /\ DeclaredSpec(layer_id, param_id).name # "" /\ Introducers(DeclaredSpec(layer_id, param_id).name) # {}) =>
       LET spec == DeclaredSpec(layer_id, param_id)
           owner == FirstIntroducer(spec.name)
           this_shape == At(CurrentLayer.blob_shapes, param_id)
           owner_shape == SlotShape(owner)
       IN /\ (spec.share_mode = "STRICT" /\ this_shape # owner_shape) =>
               (pc' = "fatal" /\ net'.fatal = "Cannot share param; shape mismatch.")
          /\ (spec.share_mode = "PERMISSIVE" /\ Count(this_shape) = Count(owner_shape)) =>
               /\ net'.fatal \notin DimensionErrors
               /\ (~spec.has_lr_mult /\ ~spec.has_decay_mult) => pc' # "fatal"
               /\ Len(net'.learnable_param_ids_) = NumParams + 1
               /\ At(net'.learnable_param_ids_, NumParams) = At(net.learnable_param_ids_, owner)
          /\ (spec.share_mode = "PERMISSIVE" /\ Count(this_shape) # Count(owner_shape)) =>
               (pc' = "fatal" /\ net'.fatal = "Cannot share param; count mismatch.")]_vars

\* a built graph in which a permissive slot shares the parameter of an owner
\* of another shape, the owner not being the first learnable parameter
C9_Witness ==
  /\ pc = "done" /\ NumParams = 3
  /\ At(net.param_owners_, 2) = 1
  /\ SlotShape(2) # SlotShape(1)
  /\ DeclaredSpec(2, 0).share_mode = "PERMISSIVE"
  /\ At(net.learnable_param_ids_, 2) = At(net.learnable_param_ids_, 1)

\* C10: in a built graph the parameter of a sharing slot and the blob of the
\* sharing unit are the owner's blob, so that what is written to the owner
\* is read through the sharing slot.
C10_SharedStorage ==
  pc = "done" =>
    \A i \in 0..(NumParams - 1) :
      At(net.param_owners_, i) >= 0 =>
        /\ At(net.params_, i) = At(net.params_, At(net.param_owners_, i))
        /\ LayerBlob(net, At(net.param_layer_indices_, i)[1], At(net.param_layer_indices_, i)[2]).ptr = At(net.params_, At(net.param_owners_, i))

\* the learnable parameter that slot i is mapped to
LearnableOf(i) == At(net.learnable_params_, At(net.learnable_param_ids_, i))

\* C11: after every AppendParam step that does not abort, and after Init,
\* learnable_param_ids_ is as long as params_, each entry is an index of
\* learnable_params_, and the learnable parameter of slot i is params_[i]
\* itself iff slot i is an owner (param_owners_[i] = -1); otherwise it is
\* the parameter of the owner of slot i.
C11_LearnableIds ==
  net.fatal = "" =>
    /\ Len(net.learnable_param_ids_) = NumParams
    /\ Len(net.param_owners_) = NumParams
    /\ \A i \in 0..(NumParams - 1) :
         /\ At(net.learnable_param_ids_, i) \in 0..(Len(net.learnable_params_) - 1)
         /\ (LearnableOf(i) = At(net.params_, i)) <=> (At(net.param_owners_, i) = -1)
         /\ At(net.param_owners_, i) # -1 =>
              /\ At(net.param_owners_, i) \in 0..(i - 1)
              /\ LearnableOf(i) = At(net.params_, At(net.param_owners_, i))

\* a built graph of three slots: an anonymous owner, a named owner, and a
\* slot that shares the named owner, whose learnable index is not its slot
\* index
C11_Witness ==
  /\ pc = "done" /\ NumParams = 3
  /\ net.param_owners_ = <<-1, -1, 1>>
  /\ SlotName(0) = ""
  /\ net.learnable_param_ids_ = <<0, 1, 1>>
  /\ Len(net.learnable_params_) = 2

(***************************************************************************)
(* Claims about the backward-need bookkeeping (SpecParam).                 *)
(***************************************************************************)
\* input k of unit i is a buffer marked as needing backward, and the
\* description does not forbid propagation to that input
InputNeedsBackward(i, k) ==
  LET u == At(param.layer, i)
  IN /\ At(net.blob_need_backward_, At(BottomIds(i), k))
     /\ ~(k < Len(u.propagate_down) /\ ~At(u.propagate_down, k))

\* unit i owns a parameter whose learning-rate multiplier is not zero
OwnsTrainable(i) ==
  \E k \in 0..(NumParams - 1) :
    /\ At(net.param_layer_indices_, k)[1] = i
    /\ At(net.param_owners_, k) = -1
    /\ DeclaredSpec(i, At(net.param_layer_indices_, k)[2]).lr_mult # 0

UnitNeedsBackward(i) ==
  \/ \E k \in 0..(Len(BottomIds(i)) - 1) : InputNeedsBackward(i, k)
  \/ OwnsTrainable(i)

\* C13: in a built graph layer_need_backward() has one entry per unit, the
\* entry of unit i is true iff an input buffer of the unit is marked as
\* needing backward (propagation to it not being forbidden) or the unit owns
\* a trainable parameter, and every output buffer of a unit whose entry is
\* true is marked as needing backward.
C13_LayerNeedBackward ==
  pc = "done" =>
    /\ Len(net.layer_need_backward_) = NumLayers
    /\ \A i \in 0..(NumLayers - 1) :
         /\ At(net.layer_need_backward_, i) = UnitNeedsBackward(i)
         /\ At(net.layer_need_backward_, i) => \A b \in Range(TopIds(i)) : At(net.blob_need_backward_, b)

(***************************************************************************)
(* Claims about the multipliers of a shared parameter (SpecMult).          *)
(***************************************************************************)
\* Init is about to run AppendParam for a slot that shares an earlier one
SharePending == ParamPending /\ DeclaredSpec(layer_id, param_id).name # "" /\ Introducers(DeclaredSpec(layer_id, param_id).name) # {}

\* the learnable index of the owner of the pending sharing slot
PendingLearnableId == At(net.learnable_param_ids_, FirstIntroducer(DeclaredSpec(layer_id, param_id).name))

\* the contract of one multiplier: has/val are the vectors before the step,
\* has2/val2 after it, aborted tells whether the step ended Init
MultContract(spec_has, spec_val, has, val, has2, val2, id, aborted) ==
  /\ (spec_has /\ At(has, id) /\ spec_val # At(val, id)) => aborted
  /\ (spec_has /\ ~At(has, id) /\ ~aborted) => (At(has2, id) = TRUE /\ At(val2, id) = spec_val)
  /\ ~spec_has => (has2 = has /\ val2 = val)
  /\ Len(has2) = Len(has) /\ Len(val2) = Len(val)
  /\ \A k \in 0..(Len(has) - 1) : k # id => (At(has2, k) = At(has, k) /\ At(val2, k) = At(val, k))

\* C12: for a sharing slot and each multiplier independently: a multiplier
\* that the slot gives and that differs from the one recorded for the owner's
\* learnable entry aborts Init; one that the slot gives while none is
\* recorded is recorded for that entry (when Init goes on); when the slot
\* gives none, the recorded value and has-flag are unchanged.
C12_SharedMultipliers ==
  [][SharePending =>
       LET spec == DeclaredSpec(layer_id, param_id)
           id == PendingLearnableId
       IN /\ MultContract(spec.has_lr_mult, spec.lr_mult, net.has_params_lr_, net.params_lr_, net'.has_params_lr_, net'.params_lr_, id, pc' = "fatal")
          /\ MultContract(spec.has_decay_mult, spec.decay_mult, net.has_params_decay_, net.params_weight_decay_, net'.has_params_decay_, net'.params_weight_decay_, id, pc' = "fatal")
          /\ (/\ spec.has_lr_mult => (~At(net.has_params_lr_, id) \/ spec.lr_mult = At(net.params_lr_, id))
              /\ spec.has_decay_mult => (~At(net.has_params_decay_, id) \/ spec.decay_mult = At(net.params_weight_decay_, id))) => pc' # "fatal"]_vars

\* Init aborted on a third slot whose weight-decay multiplier differs from the
\* one adopted from the second slot (the owner gave none), after the third
\* slot's learning-rate multiplier was recorded
C12_Witness ==
  /\ pc = "fatal" /\ net.fatal = "Shared param has mismatched decay_mult."
  /\ layer_id = 2
  /\ ~DeclaredSpec(0, 0).has_decay_mult /\ ~DeclaredSpec(0, 0).has_lr_mult
  /\ DeclaredSpec(1, 0).has_decay_mult /\ ~DeclaredSpec(1, 0).has_lr_mult
  /\ DeclaredSpec(2, 0).has_decay_mult /\ DeclaredSpec(2, 0).decay_mult # DeclaredSpec(1, 0).decay_mult
  /\ DeclaredSpec(2, 0).has_lr_mult /\ DeclaredSpec(2, 0).lr_mult = 2
  /\ net.has_params_lr_ = <<TRUE>> /\ net.params_lr_ = <<2>>
  /\ net.params_weight_decay_ = <<DeclaredSpec(1, 0).decay_mult>>

(***************************************************************************)
(* Claims about forward execution (SpecForward).                           *)
(***************************************************************************)
\* the buffers with the indices that Init recorded for the inputs, and for
\* the outputs, of unit i
ResolvedBottoms(i) == [k \in 1..Len(BottomIds(i)) |-> At(net.blobs_, BottomIds(i)[k])]

ResolvedTops(i) == [k \in 1..Len(TopIds(i)) |-> At(net.blobs_, TopIds(i)[k])]

\* the calls of the units i, i + 1, ..., j - 1, in this order
RECURSIVE CallsFromTo(_, _)
CallsFromTo(i, j) == IF i >= j THEN <<>> ELSE <<[layer |-> i, bottom |-> ResolvedBottoms(i), top |-> ResolvedTops(i)]>> \o CallsFromTo(i + 1, j)

\* C14: ForwardFromTo(start, end) with 0 <= start <= end < unitCount runs the
\* forward computation of exactly the units start, ..., end, each once and
\* in increasing order, on the buffer lists resolved at build time: while
\* the call is running the units run so far are start, ..., i - 1, and when
\* it returns they are start, ..., end.
C14_ForwardRange ==
  (fwd.op = "ForwardFromTo" /\ 0 <= fwd.start /\ fwd.start <= fwd.end /\ fwd.end < NumLayers) =>
    /\ pc \in {"forward", "returned"}
    /\ fwd.invoked = CallsFromTo(fwd.start, fwd.i)
    /\ fwd.i <= fwd.end + 1
    /\ pc = "returned" =>
         /\ fwd.i = fwd.end + 1
         /\ \A k \in 0..(NumLayers - 1) :
              Cardinality({n \in 1..Len(fwd.invoked) : fwd.invoked[n].layer = k}) = IF fwd.start <= k /\ k <= fwd.end THEN 1 ELSE 0

\* ForwardFromTo(1, 2) has returned on a graph of three units, the last of
\* which reads the buffer that the second unit wrote
C14_Witness ==
  /\ pc = "returned" /\ fwd.op = "ForwardFromTo"
  /\ NumLayers = 3 /\ fwd.start = 1 /\ fwd.end = 2
  /\ Len(fwd.invoked) = 2
  /\ fwd.invoked[2].layer = 2 /\ fwd.invoked[2].bottom # <<>>
  /\ fwd.invoked[2].bottom = fwd.invoked[1].top

RECURSIVE SumSeq(_)
SumSeq(q) == IF q = <<>> THEN 0 ELSE Head(q) + SumSeq(Tail(q))

\* C15: ForwardFromTo returns the sum of the contributions reported by the
\* units it ran, and Forward with a non-null destination stores that total
\* in it; the value returned is not zero when a unit reported a non-zero
\* contribution.
C15_ForwardLoss ==
  pc = "returned" =>
    /\ fwd.ret_loss = SumSeq(fwd.reported)
    /\ (fwd.op = "Forward" /\ fwd.has_dest) => (fwd.dest_written /\ fwd.dest = SumSeq(fwd.reported))
    /\ (\E n \in 1..Len(fwd.reported) : fwd.reported[n] # 0) => fwd.ret_loss # 0

\* the arguments of the call in progress, against the number of units
StartOut == fwd.start < 0 \/ fwd.start >= NumLayers

EndOut == fwd.end < 0 \/ fwd.end >= NumLayers

\* C16 as claimed: ForwardFromTo aborts, running no unit, whenever start or
\* end is out of range (start < 0, start >= unitCount, end < 0 or
\* end >= unitCount) and never returns normally for such arguments nor for
\* start > end.
C16_AbortsOutOfRange ==
  (fwd.op = "ForwardFromTo" /\ (StartOut \/ EndOut \/ fwd.start > fwd.end)) =>
    (pc = "fatal" /\ fwd.invoked = <<>>)

\* C16, amended: ForwardFromTo aborts, running no unit, exactly when
\* start < 0, end < 0 or end >= unitCount; for every other pair of arguments
\* with start > end (in particular start >= unitCount with end in range) it
\* runs no unit and returns 0.
C16_AbortsOnStartOrEnd ==
  fwd.op = "ForwardFromTo" =>
    /\ (fwd.start < 0 \/ EndOut) <=> pc = "fatal"
    /\ pc = "fatal" => (fwd.invoked = <<>> /\ net.fatal \in {"Check failed: start >= 0", "Check failed: end < layers_.size()"})
    /\ (pc # "fatal" /\ fwd.start > fwd.end) => (fwd.invoked = <<>> /\ fwd.i = fwd.start /\ fwd.loss = 0)
    /\ (pc = "returned" /\ fwd.start > fwd.end) => fwd.ret_loss = 0

\* ForwardFromTo(3, 0) has returned normally on a graph of two units
C16_Witness ==
  /\ pc = "returned" /\ fwd.op = "ForwardFromTo"
  /\ NumLayers = 2 /\ fwd.start = 3 /\ fwd.end = 0
  /\ fwd.invoked = <<>> /\ fwd.ret_loss = 0

(***************************************************************************)
(* Claims about the copy of trained parameters (SpecCopy).                 *)
(***************************************************************************)
\* the blobs of unit l, and the shape blob k of unit l was created with
LiveBlobs(l) == At(net.layers_, l).blobs

BuiltShape(l, k) == At(At(param.layer, l).blob_shapes, k)

\* the source units read so far that are named n
SourcesNamed(n) == {i \in 0..(Len(copy.source) - 1) : At(copy.source, i).name = n}

LastSourceNamed(n) == At(copy.source, CHOOSE i \in SourcesNamed(n) : \A o \in SourcesNamed(n) : o <= i)

\* unit l is the first unit of the graph with its name
FirstOfName(l) == \A o \in 0..(l - 1) : At(net.layer_names_, o) # At(net.layer_names_, l)

\* a step of the call that read a source unit; the unit it read, and the
\* unit of the graph it is matched with (the first of that name)
SourceRead == pc = "copy" /\ Len(copy'.source) = Len(copy.source) + 1

ReadSource == copy'.source[Len(copy'.source)]

Matched == {l \in 0..(NumLayers - 1) : At(net.layer_names_, l) = ReadSource.name /\ FirstOfName(l)}

\* the contents and the shapes of the blobs of the units other than l are
\* the same after the step
OthersUntouched(l) ==
  \A o \in 0..(NumLayers - 1) : o # l =>
    /\ At(net'.layers_, o).blobs = LiveBlobs(o)
    /\ \A k \in 0..(Len(LiveBlobs(o)) - 1) : blob_data'[<<o, k>>] = blob_data[<<o, k>>]

\* C17: after a call that did not abort, a unit whose name no source unit
\* has keeps the contents of its blobs, and the first unit of a name that
\* some source unit has holds in blob j the values of tensor j of the last
\* source unit of that name; a source unit whose name no unit has is skipped
\* without error and changes nothing.
C17_CopyByName ==
  /\ [](pc = "copied" =>
         \A l \in 0..(NumLayers - 1) : \A k \in 0..(Len(LiveBlobs(l)) - 1) :
           /\ SourcesNamed(At(net.layer_names_, l)) = {} => blob_data[<<l, k>>] = <<"live", l, k>>
           /\ (SourcesNamed(At(net.layer_names_, l)) # {} /\ FirstOfName(l)) =>
                /\ Len(LastSourceNamed(At(net.layer_names_, l)).blobs) = Len(LiveBlobs(l))
                /\ blob_data[<<l, k>>] = At(LastSourceNamed(At(net.layer_names_, l)).blobs, k).data)
  /\ [][(SourceRead /\ Matched = {}) => (pc' = "copy" /\ copy'.i = copy.i + 1 /\ blob_data' = blob_data /\ net' = net)]_vars

\* a call has returned on a graph of two units of one name after reading two
\* source units of that name and two tensors: the first unit holds the
\* tensors of the second source unit, the second unit holds what it held
C17_Witness ==
  /\ pc = "copied" /\ NumLayers = 2 /\ Len(copy.source) = 2
  /\ At(net.layer_names_, 0) = At(net.layer_names_, 1)
  /\ At(copy.source, 0).name = At(net.layer_names_, 0) /\ At(copy.source, 1).name = At(net.layer_names_, 0)
  /\ Len(LiveBlobs(0)) = 2 /\ Len(LiveBlobs(1)) = 2
  /\ blob_data[<<0, 0>>] = <<"src", 1, 0>> /\ blob_data[<<0, 1>>] = <<"src", 1, 1>>
  /\ blob_data[<<1, 0>>] = <<"live", 1, 0>> /\ blob_data[<<1, 1>>] = <<"live", 1, 1>>

\* C18: the call aborts whenever a source unit whose name a unit of the
\* graph has carries a number of tensors other than the number of blobs of
\* that unit (more or fewer), and no blob of the unit is written before.
C18_CountMismatchFatal ==
  [][(SourceRead /\ \E l \in Matched : Len(ReadSource.blobs) # Len(LiveBlobs(l))) =>
       /\ pc' = "fatal" /\ net'.fatal = "Incompatible number of blobs for layer"
       /\ blob_data' = blob_data
       /\ net'.layers_ = net.layers_]_vars

\* a call aborted on its second source unit, which carries two tensors for a
\* unit of one blob, after the tensor of the first source unit was copied to
\* the unit of the other name; the blob of the first unit holds what it held
C18_Witness ==
  /\ pc = "fatal" /\ net.fatal = "Incompatible number of blobs for layer"
  /\ Len(copy.source) = 2 /\ copy.i = 1
  /\ NumLayers = 2 /\ At(net.layer_names_, 0) # At(net.layer_names_, 1)
  /\ At(copy.source, 0).name = At(net.layer_names_, 1) /\ Len(LiveBlobs(1)) = 1
  /\ blob_data[<<1, 0>>] = <<"src", 0, 0>>
  /\ At(copy.source, 1).name = At(net.layer_names_, 0)
  /\ Len(At(copy.source, 1).blobs) = 2 /\ Len(LiveBlobs(0)) = 1
  /\ blob_data[<<0, 0>>] = <<"live", 0, 0>>

\* the first blob of unit l whose shape is not that of the tensor read for it
MismatchAt(l) ==
  LET bad == {j \in 0..(Len(LiveBlobs(l)) - 1) : LiveBlobs(l)[j + 1].shape # At(ReadSource.blobs, j).shape}
  IN IF bad = {} THEN -1 ELSE CHOOSE j \in bad : \A o \in bad : j <= o

\* C19: the call never changes the shape of a blob: every blob has the shape
\* it was created with, during the call, after its return and after its
\* abort; when the shape of a blob of the matched unit differs from the shape
\* of the tensor read for it, the call aborts at that blob without writing
\* it (the blobs before it were written, the blobs after it were not).
C19_ShapesKept ==
  /\ [](pc \in {"copy", "copied", "fatal"} =>
         \A l \in 0..(NumLayers - 1) : \A k \in 0..(Len(LiveBlobs(l)) - 1) : LiveBlobs(l)[k + 1].shape = BuiltShape(l, k))
  /\ [][(SourceRead /\ \E l \in Matched : Len(ReadSource.blobs) = Len(LiveBlobs(l)) /\ MismatchAt(l) # -1) =>
          LET l == CHOOSE x \in Matched : TRUE
          IN /\ pc' = "fatal" /\ net'.fatal = "Cannot copy param weights; shape mismatch."
             /\ \A k \in 0..(Len(LiveBlobs(l)) - 1) :
                  blob_data'[<<l, k>>] = IF k < MismatchAt(l) THEN At(ReadSource.blobs, k).data ELSE blob_data[<<l, k>>]
             /\ OthersUntouched(l)]_vars

\* a call aborted at the second blob of a unit, whose shape is not that of
\* the tensor of the same element count read for it, after writing the first
C19_Witness ==
  /\ pc = "fatal" /\ net.fatal = "Cannot copy param weights; shape mismatch."
  /\ NumLayers = 1 /\ Len(LiveBlobs(0)) = 2 /\ Len(copy.source) = 1
  /\ blob_data[<<0, 0>>] = <<"src", 0, 0>>
  /\ blob_data[<<0, 1>>] = <<"live", 0, 1>>
  /\ LiveBlobs(0)[2].shape # At(copy.source, 0).blobs[2].shape
  /\ Count(LiveBlobs(0)[2].shape) = Count(At(copy.source, 0).blobs[2].shape)

(***************************************************************************)
(* Claims about the lookups (SpecQuery).                                   *)
(***************************************************************************)
\* C20: on a built graph blob_by_name and layer_by_name do not abort and do
\* not change the graph; for a name that is not the name of a buffer (of a
\* unit) they return null and has_blob (has_layer) returns false; for the
\* name of a buffer (of a unit) they return a buffer (a unit) of that name
\* and has_blob (has_layer) returns true.
C20_Lookups ==
  /\ [](pc = "returned" =>
         /\ query.op \in {"has_blob", "blob_by_name"} =>
              /\ query.found = (query.name \in Range(net.blob_names_))
              /\ (query.op = "blob_by_name" /\ query.found) =>
                   \E b \in 0..(NumBlobs - 1) : At(net.blobs_, b) = query.result /\ At(net.blob_names_, b) = query.name
              /\ ~query.found => query.result = -1
         /\ query.op \in {"has_layer", "layer_by_name"} =>
              /\ query.found = (query.name \in Range(net.layer_names_))
              /\ (query.op = "layer_by_name" /\ query.found) =>
                   (query.result \in 0..(NumLayers - 1) /\ At(net.layer_names_, query.result) = query.name)
              /\ ~query.found => query.result = -1)
  /\ [][(pc = "done" /\ query' # query) => (pc' = "returned" /\ net' = net)]_vars

\* layer_by_name has returned a unit for a name that two units of a graph of
\* three units have, the third unit having produced a buffer
C20_Witness ==
  /\ pc = "returned" /\ query.op = "layer_by_name" /\ query.found
  /\ NumLayers = 3 /\ NumBlobs = 2
  /\ At(net.layer_names_, 0) = query.name /\ At(net.layer_names_, 1) = query.name
  /\ At(net.layer_names_, 2) # query.name
  /\ TopIds(2) = <<1>>

(***************************************************************************)
(* Claims about the graph inputs (SpecBuild).                              *)
(***************************************************************************)
\* the buffer indices recorded in top_ids for the outputs of the units of
\* type "Input" among the units i, i + 1, ..., in unit order and output order
RECURSIVE InputTopsFrom(_)
InputTopsFrom(i) ==
  IF i >= NumLayers THEN <<>>
  ELSE (IF At(param.layer, i).type = "Input" THEN TopIds(i) ELSE <<>>) \o InputTopsFrom(i + 1)

Structure(N) ==
  [layers |-> [i \in 1..Len(N.layers_) |-> N.layers_[i].layer_param],
   num_blobs |-> [i \in 1..Len(N.layers_) |-> Len(N.layers_[i].blobs)],
   layer_names |-> N.layer_names_,
   blobs |-> N.blobs_,
   blob_names |-> N.blob_names_,
   bottom_ids |-> N.bottom_id_vecs_,
   top_ids |-> N.top_id_vecs_,
   inputs |-> N.net_input_blob_indices_,
   outputs |-> N.net_output_blob_indices_,
   param_owners |-> N.param_owners_,
   learnable_param_ids |-> N.learnable_param_ids_]

\* the positions of control after a successful Init
Built == {"done", "forward", "reshape", "copy", "returned", "copied"}

\* a step taken after a successful Init keeps the structure
BuiltStepKeepsStructure == pc \in Built => Structure(net') = Structure(net)

\* C22: after a successful Init every step of ForwardFromTo, Forward,
\* Reshape, CopyTrainedLayersFrom and of the lookups by name leaves the
\* structure of the graph as it was: the units and their names, the buffers
\* and their names, bottom_ids and top_ids, the graph inputs and outputs,
\* param_owners and the learnable parameter ids.
C22_StructureKept == [][BuiltStepKeepsStructure]_vars

\* a transplant that overwrote a parameter of a graph with buffers has returned
C22_Witness ==
  /\ pc = "copied"
  /\ Len(net.blobs_) > 0 /\ Len(net.param_owners_) > 0
  /\ \E ptr \in DOMAIN blob_data : blob_data[ptr][1] = "src"

(***************************************************************************)
(* Claims about the resolution of bottoms (SpecBuild).                     *)
(***************************************************************************)
\* the names unit j reads, in the order Init reads them: its bottoms, then
\* its tops
UnitEvents(j) ==
  LET u == At(param.layer, j)
  IN [k \in 1..Len(u.bottom) |-> [kind |-> "bottom", name |-> u.bottom[k]]]
     \o [k \in 1..Len(u.top) |-> [kind |-> "top", name |-> u.top[k]]]

RECURSIVE EventsBefore(_)
EventsBefore(j) == IF j = 0 THEN <<>> ELSE EventsBefore(j - 1) \o UnitEvents(j - 1)

\* what Init has read when it is about to resolve bottom bottom_id of unit
\* layer_id
EventsNow ==
  EventsBefore(layer_id) \o [k \in 1..bottom_id |-> [kind |-> "bottom", name |-> CurrentLayer.bottom[k]]]

\* n was produced and has not been consumed since its last production
AvailableNow(n) ==
  \E p \in 1..Len(EventsNow) :
    /\ EventsNow[p] = [kind |-> "top", name |-> n]
    /\ \A q \in (p + 1)..Len(EventsNow) : EventsNow[q] # [kind |-> "bottom", name |-> n]

BottomPending == pc = "layer" /\ bottom_id < Len(CurrentLayer.bottom)

PendingBottomName == At(CurrentLayer.bottom, bottom_id)

\* the buffer registered under the name n
ProducingBuffer(n) == CHOOSE b \in 0..(NumBlobs - 1) : At(net.blob_names_, b) = n

ResolveBottom ==
  BottomPending =>
    IF AvailableNow(PendingBottomName)
    THEN /\ pc' = "layer" /\ net'.fatal = "" /\ bottom_id' = bottom_id + 1
         /\ PendingBottomName \notin net'.available_blobs
         /\ At(At(net'.bottom_id_vecs_, layer_id), bottom_id) = ProducingBuffer(PendingBottomName)
    ELSE pc' = "fatal" /\ net'.fatal = "Unknown bottom blob"

\* C23: while unit i is built, a declared input name resolves if and only
\* if it is in the available set at that moment, that is, it was produced
\* by an earlier unit and no input has consumed it since its last production;
\* otherwise Init aborts with "Unknown bottom blob".  A resolution removes the
\* name from the available set and records the index of the producing buffer
\* in bottom_ids.
C23_BottomResolution ==
  /\ [](BottomPending => \A n \in BlobNames : (n \in net.available_blobs) <=> AvailableNow(n))
  /\ [][ResolveBottom]_vars

\* a bottom was resolved whose name an earlier unit had consumed
C23_Witness ==
  /\ pc = "layer" /\ net.fatal = "" /\ bottom_id >= 1 /\ layer_id >= 1
  /\ \E j \in 0..(layer_id - 1) : At(CurrentLayer.bottom, bottom_id - 1) \in Range(At(param.layer, j).bottom)

(***************************************************************************)
(* Claims about parameter ownership (SpecParam).                           *)
(***************************************************************************)
\* the slots before k that carry the name of slot k
EarlierSameName(k) == {o \in Introducers(SlotName(k)) : o < k}

\* the description gives a spec for net parameter k
SlotDeclared(k) ==
  At(net.param_layer_indices_, k)[2] < Len(At(param.layer, At(net.param_layer_indices_, k)[1]).param)

OwnerSlots == {k \in 0..(Len(net.param_owners_) - 1) : At(net.param_owners_, k) = -1}

\* C24: a slot is an owner (param_owners entry -1, a new entry of the
\* learnable-parameter list) if and only if its name is empty, or the
\* description gives no spec for it, or no earlier slot carries the same
\* non-empty name; otherwise its entry is the index of the first slot that
\* introduced the name, and that slot is an owner.
C24_Ownership ==
  /\ \A k \in 0..(Len(net.param_owners_) - 1) :
       IF SlotName(k) = "" \/ ~SlotDeclared(k) \/ EarlierSameName(k) = {}
       THEN /\ At(net.param_owners_, k) = -1
            /\ k < Len(net.learnable_param_ids_)
            /\ At(net.learnable_params_, At(net.learnable_param_ids_, k)) = At(net.params_, k)
            /\ At(net.learnable_param_ids_, k) = Cardinality({o \in OwnerSlots : o < k})
       ELSE /\ At(net.param_owners_, k) = FirstIntroducer(SlotName(k))
            /\ At(net.param_owners_, k) < k
            /\ At(net.param_owners_, At(net.param_owners_, k)) = -1
  /\ Len(net.learnable_params_) = Cardinality(OwnerSlots)

\* a graph was built in which an anonymous slot follows two slots of one name
C24_Witness ==
  /\ pc = "done" /\ Len(net.param_owners_) >= 3
  /\ At(net.param_owners_, 1) = 0
  /\ SlotName(2) = "" /\ At(net.param_owners_, 2) = -1

(***************************************************************************)
(* Claims about the propagation flags of the inputs (SpecProp).            *)
(***************************************************************************)
\* C25: the flag recorded for input k of unit i is the unit's declared
\* override for k when the override list covers k, and the needs-backward
\* flag of the producing buffer otherwise; an override list shorter than the
\* input list is not read past its end.
C25_BottomNeedBackward ==
  \A i \in 0..(Len(param.layer) - 1) :
    \A k \in 0..(Len(At(net.bottom_need_backward_, i)) - 1) :
      LET pd == At(param.layer, i).propagate_down
      IN At(At(net.bottom_need_backward_, i), k) =
           IF k < Len(pd) THEN At(pd, k) ELSE At(net.blob_need_backward_, At(BottomIds(i), k))

(***************************************************************************)
(* Claims about the consumers of a buffer (SpecBuild).                     *)
(***************************************************************************)
\* the input occurrences of buffer b: <<unit, position>>
Consumers(b) == {it \in (0..(NumLayers - 1)) \X (0..(MaxBlobs - 1)) : it[2] < Len(BottomIds(it[1])) /\ At(BottomIds(it[1]), it[2]) = b}

\* unit m lists buffer b as an in-place output
RewritesInPlace(m, b) == \E t \in 0..(Len(TopIds(m)) - 1) : At(TopIds(m), t) = b /\ DeclaredInPlace(m, t)

\* C26: a graph that Init builds has no fan-out: between two input
\* occurrences of one buffer, in units i <= i', some unit m with i <= m < i'
\* lists the buffer as an in-place output (so that no unit consumes a buffer
\* at two positions).
C26_FanOutFree ==
  \A b \in 0..(NumBlobs - 1) : \A x \in Consumers(b) : \A y \in Consumers(b) :
    (x # y /\ x[1] <= y[1]) => \E m \in x[1]..(y[1] - 1) : RewritesInPlace(m, b)

\* a built graph in which two units consume one buffer
C26_Witness ==
  /\ pc = "done"
  /\ \E b \in 0..(NumBlobs - 1) : \E x \in Consumers(b) : \E y \in Consumers(b) : x[1] < y[1]

(***************************************************************************)
(* Claims about the buffer registry (SpecBuild).                           *)
(***************************************************************************)
\* C27: at every point of Init and in the built graph the buffer names are
\* pairwise distinct, blob_names and blobs have one length and every index in
\* a top_ids or bottom_ids list is an index of the registry; after Init the
\* name index of the lookups maps blob_names[i] to i for every buffer i.
C27_Registry ==
  /\ \A i, j \in 0..(Len(net.blob_names_) - 1) : At(net.blob_names_, i) = At(net.blob_names_, j) => i = j
  /\ Len(net.blob_names_) = Len(net.blobs_)
  /\ \A i \in 1..Len(net.top_id_vecs_) : \A b \in Range(net.top_id_vecs_[i]) : b \in 0..(NumBlobs - 1)
  /\ \A i \in 1..Len(net.bottom_id_vecs_) : \A b \in Range(net.bottom_id_vecs_[i]) : b \in 0..(NumBlobs - 1)
  /\ pc = "done" =>
       /\ DOMAIN net.blob_names_index_ = Range(net.blob_names_)
       /\ \A i \in 0..(NumBlobs - 1) : net.blob_names_index_[At(net.blob_names_, i)] = i

\* a built graph of three buffers, the first of them consumed and not
\* produced again
C27_Witness ==
  /\ pc = "done" /\ NumBlobs = 3
  /\ \E i \in 0..(NumLayers - 1) : 0 \in Range(BottomIds(i))
  /\ At(net.blob_names_, 0) \notin net.available_blobs

(***************************************************************************)
(* Claims about the number of parameter specs (SpecCount).                 *)
(***************************************************************************)
\* Init is about to set up unit layer_id and to compare the two counts
SetUpPending ==
  /\ pc = "layer" /\ param_id = -1
  /\ bottom_id = Len(CurrentLayer.bottom) /\ top_id = Len(CurrentLayer.top)

CheckParamCount ==
  SetUpPending =>
    IF Len(CurrentLayer.param) > Len(CurrentLayer.blob_shapes)
    THEN pc' = "fatal" /\ net'.fatal = "Too many params specified for layer"
    ELSE pc' # "fatal" /\ net'.fatal = ""

AppendUndeclared == (ParamPending /\ param_id >= Len(CurrentLayer.param)) => (pc' # "fatal" /\ net'.fatal = "")

\* slot k is an anonymous owner named after its position in its unit, with
\* default multipliers that the description did not give
AnonymousOwner(k) ==
  LET id == At(net.learnable_param_ids_, k)
  IN /\ At(net.param_owners_, k) = -1
     /\ At(net.param_display_names_, k) = ToString(At(net.param_layer_indices_, k)[2])
     /\ ~At(net.has_params_lr_, id) /\ ~At(net.has_params_decay_, id)
     /\ At(net.params_lr_, id) = default_param_spec.lr_mult
     /\ At(net.params_weight_decay_, id) = default_param_spec.decay_mult

\* C28: Init aborts when a unit declares more parameter specs than the unit
\* has parameter blobs; when it declares fewer, or none, Init goes on, and
\* every slot without a spec is an anonymous owner whose display name is its
\* position and whose multipliers are the defaults, both has-flags false.
C28_ParamCount ==
  /\ [](\A k \in 0..(Len(net.param_owners_) - 1) : ~SlotDeclared(k) => AnonymousOwner(k))
  /\ [][CheckParamCount /\ AppendUndeclared]_vars

\* Init aborted on a unit with more specs than blobs, after a unit with two
\* blobs and one spec
C28_Witness ==
  /\ pc = "fatal" /\ net.fatal = "Too many params specified for layer"
  /\ Len(CurrentLayer.param) > Len(CurrentLayer.blob_shapes)
  /\ \E k \in 0..(Len(net.param_owners_) - 1) :
       ~SlotDeclared(k) /\ At(net.param_layer_indices_, k)[2] = 1 /\ SlotDeclared(k - 1)

(***************************************************************************)
(* Claims about an aborted transplant (SpecCopy).                          *)
(***************************************************************************)
\* CopyTrainedLayersFrom aborted; the source unit it aborted on is the last
\* one read
CopyAborted == pc = "fatal" /\ copy.fatal # ""

\* the first blob of unit l whose shape is not that of the tensor that source
\* unit i gives for it; the number of blobs when there is none
FirstMismatch(l, i) ==
  LET bad == {j \in 0..(Len(LiveBlobs(l)) - 1) : LiveBlobs(l)[j + 1].shape # At(copy.source, i).blobs[j + 1].shape}
  IN IF bad = {} THEN Len(LiveBlobs(l)) ELSE CHOOSE j \in bad : \A o \in bad : j <= o

\* the source units read so far that reached blob k of unit l: those named
\* like l, the first unit of its name, with as many tensors as l has blobs
\* and no shape mismatch up to k
Writers(l, k) ==
  {i \in 0..(Len(copy.source) - 1) :
     /\ At(copy.source, i).name = At(net.layer_names_, l) /\ FirstOfName(l)
     /\ Len(At(copy.source, i).blobs) = Len(LiveBlobs(l))
     /\ k < FirstMismatch(l, i)}

LastWriter(l, k) == CHOOSE i \in Writers(l, k) : \A o \in Writers(l, k) : o <= i

\* C29: when CopyTrainedLayersFrom aborts at slot j of a source unit, the
\* slots of the matching units of the earlier source units and the slots
\* before j of the unit it aborted on hold source values, and every other
\* parameter holds the value it had before the call.
C29_PartialCopy ==
  CopyAborted =>
    \A l \in 0..(NumLayers - 1) : \A k \in 0..(Len(LiveBlobs(l)) - 1) :
      blob_data[<<l, k>>] =
        IF Writers(l, k) = {} THEN <<"live", l, k>> ELSE <<"src", LastWriter(l, k), k>>

\* a call aborted at the second blob of the second unit, after writing the
\* first blob of that unit and, from an earlier source unit, the first unit
C29_Witness ==
  /\ CopyAborted /\ copy.fatal = "Cannot copy param weights; shape mismatch."
  /\ NumLayers = 2 /\ Len(copy.source) = 2
  /\ Len(LiveBlobs(0)) >= 1 /\ Len(LiveBlobs(1)) = 2
  /\ blob_data[<<0, 0>>] = <<"src", 0, 0>>
  /\ blob_data[<<1, 0>>] = <<"src", 1, 0>>
  /\ blob_data[<<1, 1>>] = <<"live", 1, 1>>

(***************************************************************************)
(* Claims about the non-maximum suppression (SpecNMSLive).                 *)
(***************************************************************************)
NumBoxes == Len(nms.scores)

\* the indices whose score is above the score threshold
Candidates == {i \in 0..(NumBoxes - 1) : At(nms.scores, i) > nms.score_threshold}

\* i is ranked before j: by descending score, ties by ascending index
RankedBefore(i, j) == At(nms.scores, i) > At(nms.scores, j) \/ (At(nms.scores, i) = At(nms.scores, j) /\ i < j)

Rank(i) == Cardinality({j \in Candidates : RankedBefore(j, i)})

\* the candidates left by the truncation to top_k
Ranking ==
  IF 0 <= nms.top_k /\ nms.top_k < Cardinality(Candidates)
  THEN {i \in Candidates : Rank(i) < nms.top_k}
  ELSE Candidates

Returned == Range(nms.indices)

Overlap(i, j) == nms.overlaps[{i, j}]

GreedyResult ==
  /\ Returned \subseteq Ranking
  /\ \A p, q \in 1..Len(nms.indices) : p < q => RankedBefore(nms.indices[p], nms.indices[q])
  /\ \A i, j \in Returned : i # j => Overlap(i, j) <= nms.nms_threshold
  /\ \A c \in Ranking \ Returned :
       \E r \in Returned : RankedBefore(r, c) /\ Overlap(c, r) > nms.nms_threshold

\* C30: ApplyNMSFastEx terminates and returns the greedy non-maximum
\* suppression: of the indices with a score above score_threshold, ranked by
\* descending score and ascending index and cut to the first top_k when
\* 0 <= top_k < their number, it returns a subsequence in which every two
\* boxes overlap by at most nms_threshold and outside of which every
\* candidate overlaps by more than nms_threshold with a returned index
\* ranked before it.
C30_GreedyNMS ==
  /\ [](pc = "nms_done" => GreedyResult)
  /\ <>(pc = "nms_done")

\* a call returned the first and the third of three candidates, the second
\* being suppressed by the first, and the first two having one score
C30_Witness ==
  /\ pc = "nms_done" /\ NumBoxes = 3 /\ Cardinality(Candidates) = 3
  /\ nms.top_k = -1
  /\ nms.indices = <<0, 2>>
  /\ At(nms.scores, 0) = At(nms.scores, 1)

====
